---- MODULE Spec2Model ----
(***************************************************************************)
(* Attendance ingestion: the upload handler of app.py and the              *)
(* reconciliation engine ExcelProcessor.save_to_database, over a store of  *)
(* Student, Course and AttendanceRecord rows with a single SQLAlchemy      *)
(* session (committed state `db`, the session's own view `session`).       *)
(***************************************************************************)
EXTENDS Integers, Sequences, FiniteSets, Bags, TLC

(***************************************************************************)
(* Bounds of the model and program constants.                              *)
(***************************************************************************)
\* files of one upload request (the model's range for len(files))
MaxFiles == 2
\* course entries, student descriptors, attendance tuples of one parsed file
MaxCourses == 2
MaxStudents == 2
MaxAttendance == 3
\* largest conducted_periods of an input tuple
MaxConducted == 6
\* BATCH_SIZE of save_to_database; 500 in the source, scaled to the file size
BATCH_SIZE == 2
\* "Skip records with less than 5 conducted periods"
MinConducted == 5
\* "Allow up to 20 files per request"
MaxUpload == 20
\* "Show first 3 errors"
ShownErrors == 3
\* columns of a sheet
Width == 9
MaxRows == 4

\* Python's None, as the result of .first() and of an unset variable
None == [id |-> 0]

RegNos == {"21IT001", "21IT002"}
CourseCodes == {"22IT580", "22ITGB0"}
Conducted == (MinConducted - 1)..MaxConducted

\* What the files of one run of the model speak of: the registration
\* numbers and course codes, the descriptive variants of a student and of a
\* course (admission number and names), and the (attended_periods,
\* attendance_percentage) pairs of an attendance tuple.
Descriptions == {<<"A1", "Asha", "Data Structures">>, <<"A2", "Ravi", "Networks">>}
Payloads == {<<2, 40>>, <<3, 90>>}
OneOf(S) == {CHOOSE x \in S : TRUE}

InputScopes ==
    {[regs |-> RegNos, codes |-> OneOf(CourseCodes),
      descriptions |-> OneOf(Descriptions), payloads |-> Payloads],
     [regs |-> OneOf(RegNos), codes |-> CourseCodes,
      descriptions |-> OneOf(Descriptions), payloads |-> Payloads],
     [regs |-> RegNos, codes |-> OneOf(CourseCodes),
      descriptions |-> Descriptions, payloads |-> OneOf(Payloads)]}

VARIABLES
    db,               \* the committed store: [students, courses, records]
    session,          \* the store as db.session sees it (committed + pending)
    pc,               \* position of the request thread
    nfiles,           \* len(files) of the request in progress
    k,                \* files of the request the loop has finished
    processed_files,  \* upload_file: processed_files
    errors,           \* upload_file: errors
    response,         \* the JSON response of the last request, or None
    ci, si, i,        \* save_to_database: items consumed of the three loops
    batch_count, total_added, total_updated, total_skipped,
    course_entry,     \* save_to_database: course_info of the last iteration
    student_descriptor, \* save_to_database: student_data of the last iteration
    attendance_tuple, \* save_to_database: attendance_data of the last iteration
    printed,          \* what the last merge iteration printed
    result,           \* the last return value of save_to_database
    sheet,            \* the parsed file every sheet of the request holds, or
                      \* None when the files of the request are arbitrary
    inputs,           \* the scope of the files' contents, fixed by Init
    df,               \* _process_dataframe: the grid of cells of one sheet
    parse_pc,         \* position of _process_dataframe
    courses_info,     \* _process_dataframe: courses_info
    data_start_row,   \* _process_dataframe: data_start_row
    column_mapping,   \* _process_dataframe: column_mapping
    processed_data,   \* what process_excel_file_from_memory returns
    query_args,       \* arguments of get_filtered_attendance_records
    query_result,     \* the list get_filtered_attendance_records returns
    file_pair,        \* two parsed files, for ingestion in both orders
    stores_after,     \* the stores after ingesting them in both orders
    base,             \* the committed store two concurrent runs start from
    runs              \* the two runs: position, tuple, session and result

parseVars == <<df, parse_pc, courses_info, data_start_row, column_mapping,
               processed_data>>
queryVars == <<query_args, query_result>>
orderVars == <<file_pair, stores_after>>
runVars == <<base, runs>>

vars == <<db, session, pc, nfiles, k, processed_files, errors, response,
          ci, si, i, batch_count, total_added, total_updated, total_skipped,
          course_entry, student_descriptor, attendance_tuple, printed, result,
          sheet, inputs, parseVars, queryVars, orderVars, runVars>>

\* the state of the ingestion of a request
ingestVars == <<db, session, pc, nfiles, k, processed_files, errors, response,
                ci, si, i, batch_count, total_added, total_updated,
                total_skipped, course_entry, student_descriptor,
                attendance_tuple, printed, result, sheet, inputs>>

\* one value of processed_data['courses'], ['students'], ['attendance']
CourseInfos ==
    {[code |-> c, name |-> d[3]] : c \in inputs.codes, d \in inputs.descriptions}

StudentDatas ==
    {[admission_no |-> d[1], registration_no |-> r, name |-> d[2]] :
        r \in inputs.regs, d \in inputs.descriptions}

AttendanceDatas ==
    {[registration_no |-> r, course_code |-> c,
      attended_periods |-> v[1], conducted_periods |-> n,
      attendance_percentage |-> v[2]] :
        r \in inputs.regs, c \in inputs.codes, n \in Conducted,
        v \in inputs.payloads}

uploadVars == <<nfiles, k, processed_files, errors, response>>
loopVars == <<ci, si, i>>
entityVars == <<course_entry, student_descriptor>>
totals == <<batch_count, total_added, total_updated, total_skipped>>
mergeVars == <<attendance_tuple, printed>>

(***************************************************************************)
(* The store.  students and courses are sets of rows with generated ids;   *)
(* records is a bag of rows (the record id is read by no ingestion step,   *)
(* so rows are told apart by multiplicity).  Ids are one above the largest *)
(* id of the table.  The unique constraints of models.py are not enforced  *)
(* by the store: every insert of save_to_database follows a lookup on the  *)
(* same session, and UniqueKeys states what the constraints require.  Any  *)
(* exception a statement can raise, a database error included, is the      *)
(* Raise action.  expire_all() drops cached objects and changes no value.  *)
(* The course_name field of an attendance tuple is read by no step of      *)
(* save_to_database and is left out of the tuples.                         *)
(***************************************************************************)
EmptyStore == [students |-> {}, courses |-> {}, records |-> EmptyBag]

MaxOf(S) == IF S = {} THEN 0 ELSE CHOOSE m \in S : \A x \in S : x <= m

NextId(rows) == MaxOf({r.id : r \in rows}) + 1

\* Student.query.filter_by(registration_no=...).first()
FirstStudent(s, registration_no) ==
    LET hit == {r \in s.students : r.registration_no = registration_no}
    IN IF hit = {} THEN None
       ELSE CHOOSE r \in hit : \A q \in hit : r.id <= q.id

\* Course.query.filter_by(course_code=...).first()
FirstCourse(s, course_code) ==
    LET hit == {r \in s.courses : r.course_code = course_code}
    IN IF hit = {} THEN None
       ELSE CHOOSE r \in hit : \A q \in hit : r.id <= q.id

\* AttendanceRecord.query.filter_by(student_id=..., course_id=...).first()
FirstRecord(s, student_id, course_id) ==
    LET hit == {r \in BagToSet(s.records) :
                    r.student_id = student_id /\ r.course_id = course_id}
    IN IF hit = {} THEN None ELSE CHOOSE r \in hit : TRUE

(***************************************************************************)
(* save_to_database, one loop iteration at a time, as store transformers.  *)
(***************************************************************************)
\* lines 232-239: one iteration of "Save courses"
SaveCourse(s, course_info) ==
    IF FirstCourse(s, course_info.code) = None
    THEN [s EXCEPT !.courses = @ \cup
            {[id |-> NextId(@), course_code |-> course_info.code,
              course_name |-> course_info.name]}]
    ELSE s

\* lines 242-250 without the lookup of line 243
SaveStudentUnchecked(s, student_data) ==
    [s EXCEPT !.students = @ \cup
        {[id |-> NextId(@), admission_no |-> student_data.admission_no,
          registration_no |-> student_data.registration_no,
          name |-> student_data.name]}]

\* lines 242-250 as an upsert: a later sighting rewrites the descriptors
SaveStudentUpsert(s, student_data) ==
    LET existing_student == FirstStudent(s, student_data.registration_no)
        student == [id |-> IF existing_student = None THEN NextId(s.students)
                           ELSE existing_student.id,
                    admission_no |-> student_data.admission_no,
                    registration_no |-> student_data.registration_no,
                    name |-> student_data.name]
    IN [s EXCEPT !.students = (@ \ {existing_student}) \cup {student}]

\* lines 242-250: one iteration of "Save students"
SaveStudent(s, student_data) ==
    IF FirstStudent(s, student_data.registration_no) = None
    THEN [s EXCEPT !.students = @ \cup
            {[id |-> NextId(@), admission_no |-> student_data.admission_no,
              registration_no |-> student_data.registration_no,
              name |-> student_data.name]}]
    ELSE s

\* the minimum test one period too low: 4 conducted periods pass
BelowMinimumOffByOne(attendance_data) ==
    attendance_data.conducted_periods < MinConducted - 1

\* line 263: "Skip records with less than 5 conducted periods"
BelowMinimum(attendance_data) ==
    attendance_data.conducted_periods < MinConducted

\* the comparison of line 280 reversed
HasFewerConducted(attendance_data, existing_record) ==
    attendance_data.conducted_periods < existing_record.conducted_periods

\* the comparison of line 280 with equality let through
HasAtLeastConducted(attendance_data, existing_record) ==
    attendance_data.conducted_periods >= existing_record.conducted_periods

\* line 280: "Only update if new record has more conducted periods"
HasMoreConducted(attendance_data, existing_record) ==
    attendance_data.conducted_periods > existing_record.conducted_periods

\* lines 282-284 without the assignment of line 284
OverwrittenWithoutPercentage(existing_record, attendance_data) ==
    [existing_record EXCEPT
        !.attended_periods = attendance_data.attended_periods,
        !.conducted_periods = attendance_data.conducted_periods]

\* lines 282-284: the three assignments to existing_record
Overwritten(existing_record, attendance_data) ==
    [existing_record EXCEPT
        !.attended_periods = attendance_data.attended_periods,
        !.conducted_periods = attendance_data.conducted_periods,
        !.attendance_percentage = attendance_data.attendance_percentage]

\* lines 292-298: AttendanceRecord(...)
NewRecord(student, course, attendance_data) ==
    [student_id |-> student.id, course_id |-> course.id,
     attended_periods |-> attendance_data.attended_periods,
     conducted_periods |-> attendance_data.conducted_periods,
     attendance_percentage |-> attendance_data.attendance_percentage]

\* lines 263-300: what one iteration of the attendance loop prints and does
\* to the session; "none" is the iteration that resolves no student or course
MergeOne(s, attendance_data) ==
    IF BelowMinimum(attendance_data)
    THEN [store |-> s, printed |-> "skip_minimum"]
    ELSE
      LET student == FirstStudent(s, attendance_data.registration_no)
          course == FirstCourse(s, attendance_data.course_code)
      IN IF student = None \/ course = None
         THEN [store |-> s, printed |-> "none"]
         ELSE
           LET existing_record == FirstRecord(s, student.id, course.id)
           IN IF existing_record # None
              THEN IF HasMoreConducted(attendance_data, existing_record)
                   THEN [store |-> [s EXCEPT !.records =
                            (@ (-) SetToBag({existing_record})) (+)
                            SetToBag({Overwritten(existing_record,
                                                  attendance_data)})],
                         printed |-> "updating"]
                   ELSE [store |-> s, printed |-> "skip_existing"]
              ELSE [store |-> [s EXCEPT !.records = @ (+)
                        SetToBag({NewRecord(student, course,
                                            attendance_data)})],
                    printed |-> "adding"]

\* an except branch that leaves the pending changes in the session
RollbackSkipped(committed, s) == s

\* line 324, db.session.rollback(): the session forgets what it has not
\* committed
Rollback(committed, s) == committed

(***************************************************************************)
(* The input of the loops.  With sheet = None the content of a file is     *)
(* drawn item by item as the loops reach it; otherwise the loops read the  *)
(* parsed file `sheet`.                                                    *)
(***************************************************************************)
CourseInput ==
    IF sheet = None
    THEN IF ci < MaxCourses THEN CourseInfos ELSE {}
    ELSE IF ci < Len(sheet.courses) THEN {sheet.courses[ci + 1]} ELSE {}

StudentInput ==
    IF sheet = None
    THEN IF si < MaxStudents THEN StudentDatas ELSE {}
    ELSE IF si < Len(sheet.students) THEN {sheet.students[si + 1]} ELSE {}

AttendanceInput ==
    IF sheet = None
    THEN IF i < MaxAttendance THEN AttendanceDatas ELSE {}
    ELSE IF i < Len(sheet.attendance) THEN {sheet.attendance[i + 1]} ELSE {}

CoursesExhausted == IF sheet = None THEN TRUE ELSE ci = Len(sheet.courses)
StudentsExhausted == IF sheet = None THEN TRUE ELSE si = Len(sheet.students)
AttendanceExhausted == IF sheet = None THEN TRUE ELSE i = Len(sheet.attendance)

ErrorEntry(msg, file) == [msg |-> msg, file |-> file]

InitCommon ==
    /\ db = EmptyStore
    /\ session = EmptyStore
    /\ pc = "idle"
    /\ nfiles = 0
    /\ k = 0
    /\ processed_files = 0
    /\ errors = <<>>
    /\ response = None
    /\ ci = 0 /\ si = 0 /\ i = 0
    /\ batch_count = 0 /\ total_added = 0
    /\ total_updated = 0 /\ total_skipped = 0
    /\ course_entry = None /\ student_descriptor = None
    /\ attendance_tuple = None
    /\ printed = "nothing"
    /\ result = "None"

\* no sheet is being parsed, no query running, no comparison of orders
IdleParse ==
    /\ df = <<>>
    /\ parse_pc = "idle"
    /\ courses_info = <<>>
    /\ data_start_row = 0
    /\ column_mapping = None
    /\ processed_data = None

IdleQuery == query_args = None /\ query_result = None

IdleOrder == file_pair = <<>> /\ stores_after = None
IdleRuns == base = None /\ runs = <<>>

Init ==
    /\ InitCommon /\ sheet = None /\ inputs \in InputScopes
    /\ IdleParse /\ IdleQuery /\ IdleOrder /\ IdleRuns

(***************************************************************************)
(* The shape of what _process_dataframe returns: one student descriptor    *)
(* per data row and, per row, at most one attendance tuple for each course *)
(* code of the column map, rows in sheet order.                            *)
(***************************************************************************)
\* the (attended, conducted, percentage) cells of one course in one row, or
\* None when the row yields no tuple for the course
Marks ==
    {None} \cup
    {[attended_periods |-> v[1], conducted_periods |-> n,
      attendance_percentage |-> v[2]] : n \in Conducted, v \in inputs.payloads}

DataRows == [student : StudentDatas, marks : [inputs.codes -> Marks]]

SeqsUpTo(S, n) == UNION {[1..m -> S] : m \in 0..n}

\* the keys of column_mapping['courses'], in the order of their first header
RECURSIVE MappedCodes(_)
MappedCodes(courses) ==
    IF courses = <<>> THEN <<>>
    ELSE <<Head(courses).code>> \o
         SelectSeq(MappedCodes(Tail(courses)),
                   LAMBDA c : c # Head(courses).code)

\* lines 181-206: the tuples of one row
RECURSIVE RowAttendance(_, _)
RowAttendance(row, codes) ==
    IF codes = <<>> THEN <<>>
    ELSE (IF row.marks[Head(codes)] = None THEN <<>>
          ELSE <<[registration_no |-> row.student.registration_no,
                  course_code |-> Head(codes),
                  attended_periods |-> row.marks[Head(codes)].attended_periods,
                  conducted_periods |->
                      row.marks[Head(codes)].conducted_periods,
                  attendance_percentage |->
                      row.marks[Head(codes)].attendance_percentage]>>)
         \o RowAttendance(row, Tail(codes))

\* lines 157-213: the tuples of all rows
RECURSIVE SheetAttendance(_, _)
SheetAttendance(rows, codes) ==
    IF rows = <<>> THEN <<>>
    ELSE RowAttendance(Head(rows), codes) \o SheetAttendance(Tail(rows), codes)

\* lines 215-219: processed_data
ProcessedData(courses, rows) ==
    [courses |-> courses,
     students |-> [j \in 1..Len(rows) |-> rows[j].student],
     attendance |-> SheetAttendance(rows, MappedCodes(courses))]

ParsedFiles ==
    {f \in {ProcessedData(courses, rows) :
                courses \in SeqsUpTo(CourseInfos, MaxCourses),
                rows \in SeqsUpTo(DataRows, MaxStudents)} :
        Len(f.attendance) <= MaxAttendance}

\* every sheet of the request is the same parsed file
InitReingest ==
    /\ InitCommon /\ inputs \in InputScopes /\ sheet \in ParsedFiles
    /\ IdleParse /\ IdleQuery /\ IdleOrder /\ IdleRuns

(***************************************************************************)
(* upload_file                                                             *)
(***************************************************************************)
\* app.py 88-97: the request is refused before the loop
RejectUpload ==
    /\ pc = "idle"
    /\ \E n \in {0, 1, MaxUpload + 1} :
         /\ nfiles' = n
         /\ response' = [success |-> FALSE, status |-> 400,
                         error |-> IF n > MaxUpload
                                   THEN "Maximum 20 files allowed at once"
                                   ELSE "No files selected"]
    /\ pc' = "done"
    /\ UNCHANGED <<db, session, k, processed_files, errors, loopVars, totals,
                   entityVars, mergeVars, result, sheet, inputs>>
    /\ UNCHANGED <<parseVars, queryVars, orderVars, runVars>>

\* app.py 99-102: the request is accepted and the loop entered
StartUpload ==
    /\ pc = "idle"
    /\ \E n \in 1..MaxFiles : nfiles' = n
    /\ k' = 0
    /\ processed_files' = 0
    /\ errors' = <<>>
    /\ pc' = "loop"
    /\ UNCHANGED <<db, session, response, loopVars, totals, entityVars, mergeVars, result,
                   sheet, inputs>>
    /\ UNCHANGED <<parseVars, queryVars, orderVars, runVars>>

\* app.py 105-107: "Invalid file type", continue
InvalidFile ==
    /\ pc = "loop"
    /\ k < nfiles
    /\ errors' = Append(errors, ErrorEntry("Invalid file type", k + 1))
    /\ k' = k + 1
    /\ UNCHANGED <<db, session, pc, nfiles, processed_files, response,
                   loopVars, totals, entityVars, mergeVars, result, sheet, inputs>>
    /\ UNCHANGED <<parseVars, queryVars, orderVars, runVars>>

\* app.py 117-126: what follows the processing of an allowed file: the else
\* of the try around gc.collect() runs whenever gc.collect() returns
AfterFile(errs, file) ==
    Append(errs, ErrorEntry("Unsupported file format", file))

\* a parse failure that leaves the loop and ends the request
UnparsableFileAborts ==
    /\ pc = "loop"
    /\ k < nfiles
    /\ errors' = Append(errors, ErrorEntry("Failed to process", k + 1))
    /\ response' = [success |-> FALSE, status |-> 500,
                    error |-> "An error occurred while processing the files."]
    /\ pc' = "done"
    /\ UNCHANGED <<db, session, nfiles, k, processed_files, loopVars, totals,
                   entityVars, mergeVars, result, sheet, inputs>>
    /\ UNCHANGED <<parseVars, queryVars, orderVars, runVars>>

\* app.py 111-115 with 147-152: the parser returns None, no store access
UnparsableFile ==
    /\ pc = "loop"
    /\ k < nfiles
    /\ errors' = AfterFile(
                    Append(errors, ErrorEntry("Failed to process", k + 1)),
                    k + 1)
    /\ k' = k + 1
    /\ UNCHANGED <<db, session, pc, nfiles, processed_files, response,
                   loopVars, totals, entityVars, mergeVars, result, sheet, inputs>>
    /\ UNCHANGED <<parseVars, queryVars, orderVars, runVars>>

\* the next file is started while the merge of the current one is running
BeginSaveOverlapping ==
    /\ pc \in {"loop", "merge"}
    /\ k + (IF pc = "merge" THEN 1 ELSE 0) < nfiles
    /\ k' = k + (IF pc = "merge" THEN 1 ELSE 0)
    /\ pc' = "save"
    /\ ci' = 0 /\ si' = 0 /\ i' = 0
    /\ UNCHANGED <<db, session, nfiles, processed_files, errors, response,
                   totals, entityVars, mergeVars, result, sheet, inputs>>
    /\ UNCHANGED <<parseVars, queryVars, orderVars, runVars>>

\* app.py 147-151: the parser returns processed_data; save_to_database starts
BeginSave ==
    /\ pc = "loop"
    /\ k < nfiles
    /\ pc' = "save"
    /\ ci' = 0 /\ si' = 0 /\ i' = 0
    /\ UNCHANGED <<db, session, uploadVars, totals, entityVars, mergeVars,
                   result, sheet, inputs>>
    /\ UNCHANGED <<parseVars, queryVars, orderVars, runVars>>

(***************************************************************************)
(* ExcelProcessor.save_to_database                                         *)
(***************************************************************************)
\* lines 232-239
CourseStep ==
    /\ pc = "save"
    /\ si = 0
    /\ \E course_info \in CourseInput :
         /\ course_entry' = course_info
         /\ session' = SaveCourse(session, course_info)
    /\ ci' = ci + 1
    /\ UNCHANGED <<db, pc, uploadVars, si, i, totals, student_descriptor,
                   mergeVars, result, sheet, inputs>>
    /\ UNCHANGED <<parseVars, queryVars, orderVars, runVars>>

\* lines 242-250
StudentStep ==
    /\ pc = "save"
    /\ CoursesExhausted
    /\ \E student_data \in StudentInput :
         /\ student_descriptor' = student_data
         /\ session' = SaveStudent(session, student_data)
    /\ si' = si + 1
    /\ UNCHANGED <<db, pc, uploadVars, ci, i, totals, course_entry, mergeVars,
                   result, sheet, inputs>>
    /\ UNCHANGED <<parseVars, queryVars, orderVars, runVars>>

\* the students and courses are left to the first batch commit
CommitEntitiesDeferred ==
    /\ pc = "save"
    /\ CoursesExhausted
    /\ StudentsExhausted
    /\ pc' = "merge"
    /\ batch_count' = 0 /\ total_added' = 0
    /\ total_updated' = 0 /\ total_skipped' = 0
    /\ ci' = 0 /\ si' = 0
    /\ course_entry' = None /\ student_descriptor' = None
    /\ UNCHANGED <<db, session, uploadVars, i, mergeVars, result, sheet, inputs>>
    /\ UNCHANGED <<parseVars, queryVars, orderVars, runVars>>

\* lines 252-259: "Commit students and courses first", counters set to 0
CommitEntities ==
    /\ pc = "save"
    /\ CoursesExhausted
    /\ StudentsExhausted
    /\ db' = session
    /\ pc' = "merge"
    /\ batch_count' = 0 /\ total_added' = 0
    /\ total_updated' = 0 /\ total_skipped' = 0
    /\ ci' = 0 /\ si' = 0
    /\ course_entry' = None /\ student_descriptor' = None
    /\ UNCHANGED <<session, uploadVars, i, mergeVars, result, sheet, inputs>>
    /\ UNCHANGED <<parseVars, queryVars, orderVars, runVars>>

\* the loop without the count of line 288: a stale tuple is counted nowhere
MergeStepUncounted ==
    /\ pc = "merge"
    /\ \E data \in AttendanceInput :
         LET m == MergeOne(session, data)
             counted == m.printed \notin {"skip_minimum"}
             full == counted /\ batch_count + 1 >= BATCH_SIZE
         IN /\ attendance_tuple' = data
            /\ session' = m.store
            /\ printed' = m.printed
            /\ total_added' = total_added + IF m.printed = "adding" THEN 1 ELSE 0
            /\ total_updated' =
                  total_updated + IF m.printed = "updating" THEN 1 ELSE 0
            /\ total_skipped' =
                  total_skipped +
                  IF m.printed \in {"skip_minimum"} THEN 1 ELSE 0
            /\ batch_count' = IF full THEN 0
                              ELSE IF counted THEN batch_count + 1
                              ELSE batch_count
            /\ db' = IF full THEN m.store ELSE db
    /\ i' = i + 1
    /\ UNCHANGED <<pc, uploadVars, ci, si, entityVars, result, sheet, inputs>>
    /\ UNCHANGED <<parseVars, queryVars, orderVars, runVars>>

\* lines 261-316: one iteration of the attendance loop, batch commit included
MergeStep ==
    /\ pc = "merge"
    /\ \E data \in AttendanceInput :
         LET m == MergeOne(session, data)
             counted == m.printed \notin {"skip_minimum"}
             full == counted /\ batch_count + 1 >= BATCH_SIZE
         IN /\ attendance_tuple' = data
            /\ session' = m.store
            /\ printed' = m.printed
            /\ total_added' = total_added + IF m.printed = "adding" THEN 1 ELSE 0
            /\ total_updated' =
                  total_updated + IF m.printed = "updating" THEN 1 ELSE 0
            /\ total_skipped' =
                  total_skipped +
                  IF m.printed \in {"skip_minimum", "skip_existing"} THEN 1 ELSE 0
            /\ batch_count' = IF full THEN 0
                              ELSE IF counted THEN batch_count + 1
                              ELSE batch_count
            /\ db' = IF full THEN m.store ELSE db
    /\ i' = i + 1
    /\ UNCHANGED <<pc, uploadVars, ci, si, entityVars, result, sheet, inputs>>
    /\ UNCHANGED <<parseVars, queryVars, orderVars, runVars>>

\* lines 318-321 and app.py 112-113, 117-126: final commit, return True
FinalCommit ==
    /\ pc = "merge"
    /\ AttendanceExhausted
    /\ db' = session
    /\ result' = "True"
    /\ processed_files' = processed_files + 1
    /\ errors' = AfterFile(errors, k + 1)
    /\ k' = k + 1
    /\ pc' = "loop"
    /\ attendance_tuple' = None
    /\ printed' = "nothing"
    /\ UNCHANGED <<session, nfiles, response, loopVars, totals, entityVars,
                   sheet, inputs>>
    /\ UNCHANGED <<parseVars, queryVars, orderVars, runVars>>

\* lines 323-326 and app.py 114-115, 117-126: a statement of the try block
\* raises; rollback, return False
Raise ==
    /\ pc \in {"save", "merge"}
    /\ session' = Rollback(db, session)
    /\ result' = "False"
    /\ errors' = AfterFile(
                    Append(errors, ErrorEntry("Failed to process", k + 1)),
                    k + 1)
    /\ k' = k + 1
    /\ pc' = "loop"
    /\ course_entry' = None /\ student_descriptor' = None
    /\ attendance_tuple' = None
    /\ printed' = "nothing"
    /\ UNCHANGED <<db, nfiles, processed_files, response, loopVars, totals,
                   sheet, inputs>>
    /\ UNCHANGED <<parseVars, queryVars, orderVars, runVars>>

\* errors[:3]
FirstErrors(errs) ==
    SubSeq(errs, 1, IF Len(errs) < ShownErrors THEN Len(errs) ELSE ShownErrors)

\* a response that reports success only when every file was processed
RespondAllOrNothing ==
    /\ pc = "loop"
    /\ k = nfiles
    /\ response' =
         IF processed_files = nfiles
         THEN [success |-> TRUE, status |-> 200,
               processed |-> processed_files,
               names_errors |-> errors # <<>>,
               error_count |-> Len(errors)]
         ELSE [success |-> FALSE, status |-> 500,
               error |-> "No files were processed successfully.",
               shown |-> FirstErrors(errors)]
    /\ pc' = "done"
    /\ UNCHANGED <<db, session, nfiles, k, processed_files, errors, loopVars,
                   totals, entityVars, mergeVars, result, sheet, inputs>>
    /\ UNCHANGED <<parseVars, queryVars, orderVars, runVars>>

\* app.py 128-137: the response of an accepted request
Respond ==
    /\ pc = "loop"
    /\ k = nfiles
    /\ response' =
         IF processed_files > 0
         THEN [success |-> TRUE, status |-> 200,
               processed |-> processed_files,
               names_errors |-> errors # <<>>,
               error_count |-> Len(errors)]
         ELSE [success |-> FALSE, status |-> 500,
               error |-> "No files were processed successfully.",
               shown |-> FirstErrors(errors)]
    /\ pc' = "done"
    /\ UNCHANGED <<db, session, nfiles, k, processed_files, errors, loopVars,
                   totals, entityVars, mergeVars, result, sheet, inputs>>
    /\ UNCHANGED <<parseVars, queryVars, orderVars, runVars>>

Next ==
    \/ RejectUpload
    \/ StartUpload
    \/ InvalidFile
    \/ UnparsableFile
    \/ BeginSave
    \/ CourseStep
    \/ StudentStep
    \/ CommitEntities
    \/ MergeStep
    \/ FinalCommit
    \/ Raise
    \/ Respond

Spec == Init /\ [][Next]_vars

SpecReingest == InitReingest /\ [][Next]_vars

(***************************************************************************)
(* The sheet parser, ExcelProcessor._process_dataframe.  A grid is a       *)
(* sequence of rows, a row a sequence of cells, indexed from 0 in the      *)
(* source and from 1 here (ColAt, RowAt take the source's index).  A cell  *)
(* is NaN, a number (in tenths, so that int(float(x)) has something to     *)
(* truncate), a date, or a string.  A string is the sequence of its        *)
(* blank-separated words; the substring tests of the source are tests on   *)
(* whole words.                                                            *)
(***************************************************************************)
NaN == [t |-> "nan"]
Num(tenths) == [t |-> "num", tenths |-> tenths]
Date == [t |-> "date"]
Text(words) == [t |-> "str", words |-> words]

\* pd.notna
NotNa(cell) == cell.t # "nan"

\* str(x)
Str(cell) ==
    CASE cell.t = "str" -> cell.words
      [] cell.t = "num" -> <<ToString(cell.tenths)>>
      [] cell.t = "date" -> <<"2024-01-01">>
      [] OTHER -> <<"nan">>

\* str.upper(), word by word
UpperWord(w) ==
    CASE w = "Admission" -> "ADMISSION"
      [] w = "Registration" -> "REGISTRATION"
      [] w = "Student" -> "STUDENT"
      [] w = "Name" -> "NAME"
      [] w = "No" -> "NO"
      [] w = "Attended" -> "ATTENDED"
      [] w = "Conducted" -> "CONDUCTED"
      [] w = "Roll" -> "ROLL"
      [] w = "Report" -> "REPORT"
      [] w = "Asha" -> "ASHA"
      [] w = "Ravi" -> "RAVI"
      [] w = "Data" -> "DATA"
      [] w = "Structures" -> "STRUCTURES"
      [] w = "Networks" -> "NETWORKS"
      [] w = "nan" -> "NAN"
      [] w = "student" -> "STUDENT"
      [] w = "name" -> "NAME"
      [] OTHER -> w

Upper(words) == [j \in 1..Len(words) |-> UpperWord(words[j])]

\* keyword in text
Contains(words, keyword) ==
    \E p \in 0..(Len(words) - Len(keyword)) :
        \A j \in 1..Len(keyword) : words[p + j] = keyword[j]

\* float(x): the value in tenths, or the exception raised
Numerals == ("8" :> 80) @@ ("10" :> 100)

Float(cell) ==
    CASE cell.t = "num" -> [ok |-> TRUE, tenths |-> cell.tenths]
      [] cell.t = "date" -> [ok |-> FALSE, error |-> "TypeError"]
      [] cell.t = "str" ->
            IF Len(cell.words) = 1 /\ cell.words[1] \in DOMAIN Numerals
            THEN [ok |-> TRUE, tenths |-> Numerals[cell.words[1]]]
            ELSE [ok |-> FALSE, error |-> "ValueError"]
      [] OTHER -> [ok |-> FALSE, error |-> "ValueError"]  \* int(nan)

\* int(f): truncation toward zero
Trunc(tenths) == IF tenths >= 0 THEN tenths \div 10 ELSE -((-tenths) \div 10)

\* a float that is a ratio, in lowest terms
RECURSIVE Gcd(_, _)
Gcd(a, b) == IF b = 0 THEN a ELSE Gcd(b, a % b)

Ratio(num, den) ==
    LET g == Gcd(IF num < 0 THEN -num ELSE num, den)
    IN <<num \div g, den \div g>>

\* row.iloc[col], header_row[col]: the cell, or None for an IndexError
ColAt(cells, col) == IF col < Len(cells) THEN cells[col + 1] ELSE None

\* the text of a row, upper-cased: ' '.join(str(x) for the non-NaN cells)
RECURSIVE RowStr(_)
RowStr(cells) ==
    IF cells = <<>> THEN <<>>
    ELSE (IF NotNa(Head(cells)) THEN Upper(Str(Head(cells))) ELSE <<>>)
         \o RowStr(Tail(cells))

\* "2 digits + 4-5 alphanumeric characters"
IsCourseCode(w) == w \in CourseCodes \cup {"22ECGD0"}

\* re.search(r'(\d{2}[A-Z0-9]{4,5})\s*-\s*(.+)', cell): the leftmost match
CourseMatch(cell) ==
    IF cell.t # "str" THEN None
    ELSE LET ps == {p \in 1..(Len(cell.words) - 2) :
                        /\ IsCourseCode(cell.words[p])
                        /\ cell.words[p + 1] = "-"}
         IN IF ps = {} THEN None
            ELSE LET p == CHOOSE q \in ps : \A r \in ps : q <= r
                 IN [code |-> cell.words[p],
                     name |-> SubSeq(cell.words, p + 2, Len(cell.words))]

\* lines 9-29: the courses of row 4, in ascending column index
RECURSIVE CoursesFrom(_, _)
CoursesFrom(cells, col) ==
    IF col >= Len(cells) THEN <<>>
    ELSE LET found == CourseMatch(cells[col + 1])
         IN (IF found = None THEN <<>>
             ELSE <<[col |-> col, code |-> found.code, name |-> found.name]>>)
            \o CoursesFrom(cells, col + 1)

\* every course under the name of the first detected course
courses_named_after_first(grid) ==
    LET found == IF Len(grid) > 4 THEN CoursesFrom(grid[5], 0) ELSE <<>>
    IN [j \in 1..Len(found) |-> [found[j] EXCEPT !.name = found[1].name]]

extract_course_info_from_header(grid) ==
    IF Len(grid) > 4 THEN CoursesFrom(grid[5], 0) ELSE <<>>

\* lines 31-38
Markers == {<<"ADMISSION", "NO">>, <<"REGISTRATION", "NO">>,
            <<"STUDENT", "NAME">>}

FallbackStartRow == 7

\* the rows (counted from 1) whose text holds a marker
MarkerRows(grid) ==
    {r \in 1..Len(grid) :
        \E keyword \in Markers : Contains(RowStr(grid[r]), keyword)}

\* returning from the last marker row instead of the first
find_last_marker_row(grid) ==
    LET hits == MarkerRows(grid)
    IN IF hits = {} THEN FallbackStartRow
       ELSE (CHOOSE r \in hits : \A q \in hits : r >= q)

find_data_start_row(grid) ==
    LET hits == MarkerRows(grid)
    IN IF hits = {} THEN FallbackStartRow
       ELSE (CHOOSE r \in hits : \A q \in hits : r <= q)
       \* a hit at index r - 1 of the source: data starts at (r - 1) + 1

\* lines 45-53: which standard column a header cell names, if any
StandardColumn(cell) ==
    IF ~NotNa(cell) THEN "none"
    ELSE LET name == Upper(Str(cell))
         IN IF Contains(name, <<"ADMISSION">>) THEN "admission_no"
            ELSE IF Contains(name, <<"REGISTRATION">>) THEN "registration_no"
            ELSE IF Contains(name, <<"STUDENT", "NAME">>)
                    \/ Contains(name, <<"NAME">>) THEN "student_name"
            ELSE "none"

\* the index the loop leaves in column_mapping[key], -1 when the key is unset
LastColumn(header_row, key) ==
    LET cols == {c \in 0..(Len(header_row) - 1) :
                    StandardColumn(header_row[c + 1]) = key}
    IN IF cols = {} THEN -1 ELSE CHOOSE c \in cols : \A d \in cols : d <= c

\* column_mapping.get(key, default)
Get(col, default) == IF col = -1 THEN default ELSE col

\* lines 63-68: attended_col_indices
RECURSIVE AttendedCols(_, _)
AttendedCols(header_row, col) ==
    IF col >= Len(header_row) THEN <<>>
    ELSE (IF /\ NotNa(header_row[col + 1])
             /\ Contains(Upper(Str(header_row[col + 1])), <<"ATTENDED">>)
          THEN <<col>> ELSE <<>>)
         \o AttendedCols(header_row, col + 1)

\* course_columns[course_code] = {...}: a dict keeps the place of a key's
\* first assignment and the value of its last
PutGroup(groups, group) ==
    IF \E j \in 1..Len(groups) : groups[j].code = group.code
    THEN [j \in 1..Len(groups) |->
             IF groups[j].code = group.code THEN group ELSE groups[j]]
    ELSE Append(groups, group)

\* lines 71-80
RECURSIVE MapCourses(_, _, _, _)
MapCourses(infos, attended, j, groups) ==
    IF j > Len(infos) THEN groups
    ELSE MapCourses(infos, attended, j + 1,
            IF j <= Len(attended)
            THEN PutGroup(groups, [code |-> infos[j].code,
                                   attended |-> attended[j],
                                   conducted |-> attended[j] + 1,
                                   percentage |-> attended[j] + 2])
            ELSE groups)

\* lines 40-83
map_columns_to_courses(header_row, infos) ==
    [admission_no |-> LastColumn(header_row, "admission_no"),
     registration_no |-> LastColumn(header_row, "registration_no"),
     student_name |-> LastColumn(header_row, "student_name"),
     courses |-> MapCourses(infos, AttendedCols(header_row, 3), 1, <<>>)]

\* the percentage as a plain fraction
ComputedPercentageUnscaled(attended, conducted) ==
    IF conducted > 0 THEN Ratio(attended, conducted) ELSE <<0, 1>>

\* line 194: (attended / conducted * 100) if conducted > 0 else 0
ComputedPercentage(attended, conducted) ==
    IF conducted > 0 THEN Ratio(attended * 100, conducted) ELSE <<0, 1>>

\* lines 182-209: the tuple of one course of one row; "none" when the course
\* is skipped or an exception is caught, "abort" when an exception escapes
\* both handlers of the loops (they catch ValueError and IndexError only)
ExtractTuple(cells, group, registration_no, first_name) ==
    LET attended == ColAt(cells, group.attended)
        conducted == ColAt(cells, group.conducted)
        percentage == ColAt(cells, group.percentage)
        Caught(error) == IF error = "TypeError" THEN [kind |-> "abort"]
                         ELSE [kind |-> "none"]
    IN IF attended = None \/ conducted = None \/ percentage = None
       THEN [kind |-> "none"]                              \* IndexError
       ELSE IF ~(/\ NotNa(attended) /\ Str(attended) # <<"-">>
                 /\ NotNa(conducted) /\ Str(conducted) # <<"-">>)
       THEN [kind |-> "none"]
       ELSE LET fa == Float(attended)
                fc == Float(conducted)
            IN IF ~fa.ok THEN Caught(fa.error)
               ELSE IF ~fc.ok THEN Caught(fc.error)
               ELSE LET a == Trunc(fa.tenths)
                        c == Trunc(fc.tenths)
                        fp == Float(percentage)
                        blank == ~NotNa(percentage) \/ Str(percentage) = <<"-">>
                    IN IF ~blank /\ ~fp.ok THEN Caught(fp.error)
                       ELSE [kind |-> "tuple",
                             tuple |->
                               [registration_no |-> registration_no,
                                course_code |-> group.code,
                                course_name |-> first_name,
                                attended_periods |-> a,
                                conducted_periods |-> c,
                                attendance_percentage |->
                                    IF blank
                                    THEN ComputedPercentage(a, c)
                                    ELSE Ratio(fp.tenths, 10)]]

\* lines 181-209: the tuples of one row, or "abort"
RECURSIVE ExtractCourses(_, _, _, _)
ExtractCourses(cells, groups, registration_no, first_name) ==
    IF groups = <<>> THEN [kind |-> "tuples", tuples |-> <<>>]
    ELSE LET one == ExtractTuple(cells, Head(groups), registration_no,
                                 first_name)
         IN IF one.kind = "abort" THEN [kind |-> "abort"]
            ELSE LET rest == ExtractCourses(cells, Tail(groups),
                                            registration_no, first_name)
                 IN IF rest.kind = "abort" THEN rest
                    ELSE [kind |-> "tuples",
                          tuples |-> (IF one.kind = "tuple"
                                      THEN <<one.tuple>> ELSE <<>>)
                                     \o rest.tuples]

\* str(cell) if pd.notna(cell) else ''
StrOrEmpty(cell) == IF NotNa(cell) THEN Str(cell) ELSE <<>>

\* lines 158-213: one data row
ExtractRow(cells, mapping, first_name) ==
    IF \A j \in 1..Len(cells) : ~NotNa(cells[j]) THEN [kind |-> "skip"]
    ELSE LET a == ColAt(cells, Get(mapping.admission_no, 0))
             r == ColAt(cells, Get(mapping.registration_no, 1))
             n == ColAt(cells, Get(mapping.student_name, 2))
         IN IF a = None \/ r = None \/ n = None
            THEN [kind |-> "skip"]                         \* IndexError
            ELSE IF StrOrEmpty(r) = <<>> \/ StrOrEmpty(r) = <<"nan">>
            THEN [kind |-> "skip"]
            ELSE LET got == ExtractCourses(cells, mapping.courses,
                                           StrOrEmpty(r), first_name)
                 IN IF got.kind = "abort" THEN got
                    ELSE [kind |-> "row",
                          student |-> [admission_no |-> StrOrEmpty(a),
                                       registration_no |-> StrOrEmpty(r),
                                       name |-> StrOrEmpty(n)],
                          tuples |-> got.tuples]

\* lines 157-213: the rows from index r on
RECURSIVE ExtractRows(_, _, _, _)
ExtractRows(grid, r, mapping, first_name) ==
    IF r >= Len(grid) THEN [kind |-> "rows", students |-> <<>>,
                            attendance |-> <<>>]
    ELSE LET one == ExtractRow(grid[r + 1], mapping, first_name)
         IN IF one.kind = "abort" THEN [kind |-> "abort"]
            ELSE LET rest == ExtractRows(grid, r + 1, mapping, first_name)
                 IN IF rest.kind = "abort" THEN rest
                    ELSE IF one.kind = "skip" THEN rest
                    ELSE [kind |-> "rows",
                          students |-> <<one.student>> \o rest.students,
                          attendance |-> one.tuples \o rest.attendance]

\* line 201: courses_info[list(courses_info.keys())[0]]['name']
FirstCourseName(infos) == IF infos = <<>> THEN <<>> ELSE infos[1].name

\* line 147: df.iloc[data_start_row - 1] raises IndexError past the last row
HeaderRowMissing(grid, start) == start - 1 >= Len(grid)

\* lines 138-223: the returned dict, or None when an exception reaches the
\* outer handler
process_dataframe(grid) ==
    LET infos == extract_course_info_from_header(grid)
        start == find_data_start_row(grid)
    IN IF HeaderRowMissing(grid, start) THEN None
       ELSE LET mapping == map_columns_to_courses(grid[start], infos)
                got == ExtractRows(grid, start, mapping,
                                   FirstCourseName(infos))
            IN IF got.kind = "abort" THEN None
               ELSE [students |-> got.students,
                     attendance |-> got.attendance,
                     courses |-> infos]

(***************************************************************************)
(* The sheets the parser is run on.  Every grid has Width columns.  A      *)
(* sheet is a prefix of a report layout (titles, the course header in row  *)
(* 4, the column header in row 6, two data rows) or of a bare table (the   *)
(* column header, then the data rows).                                     *)
(***************************************************************************)
Pad(cells) ==
    [j \in 1..Width |-> IF j <= Len(cells) THEN cells[j] ELSE NaN]

BlankRow == Pad(<<>>)
TitleRow == Pad(<<Text(<<"Report">>)>>)

CourseCell(code, name) == Text(<<code, "-">> \o name)

\* row 4: no match, one course, two courses, one code in two columns, three
\* courses
CourseRows ==
    {BlankRow,
     Pad(<<NaN, NaN, NaN, Text(<<"22IT580">>), Num(30),
           Text(<<"22it580", "-", "Data">>)>>),
     Pad(<<NaN, NaN, NaN, CourseCell("22IT580", <<"Data", "Structures">>)>>),
     Pad(<<NaN, NaN, NaN, CourseCell("22IT580", <<"Data", "Structures">>),
           NaN, NaN, CourseCell("22ITGB0", <<"Networks">>)>>),
     Pad(<<NaN, NaN, NaN, CourseCell("22IT580", <<"Data", "Structures">>),
           NaN, NaN, CourseCell("22IT580", <<"Networks">>)>>),
     Pad(<<NaN, NaN, NaN, CourseCell("22IT580", <<"Data", "Structures">>),
           CourseCell("22ITGB0", <<"Networks">>), NaN,
           CourseCell("22ECGD0", <<"Data">>)>>)}

Triple == <<Text(<<"Attended">>), Text(<<"Conducted">>), Text(<<"%">>)>>

\* the column header: with and without marker, one or two column triples,
\* ATTENDED left of column 3 and at the right edge
HeaderRows ==
    {Pad(<<Text(<<"Admission", "No">>), Text(<<"Registration", "No">>),
           Text(<<"Student", "Name">>)>> \o Triple \o Triple),
     Pad(<<Text(<<"Admission", "No">>), Text(<<"Registration", "No">>),
           Text(<<"Student", "Name">>)>> \o Triple),
     Pad(<<Text(<<"Registration", "No">>), Text(<<"Name">>),
           Text(<<"ADMISSION", "NO">>)>> \o Triple \o Triple),
     Pad(<<NaN, NaN, NaN>> \o Triple \o Triple),
     Pad(<<Text(<<"Roll">>), Text(<<"Attended">>), Text(<<"Name">>), NaN>>
         \o Triple \o <<Text(<<"ATTENDED">>)>>),
     BlankRow}

\* the (attended, conducted, percentage) cells of one course in one row
CellTriples ==
    {<<Num(80), Num(100), NaN>>,
     <<Num(87), Num(100), Text(<<"-">>)>>,
     <<Num(80), Num(100), Num(755)>>,
     <<Num(40), Num(40), NaN>>,
     <<Num(0), Num(0), NaN>>,
     <<Text(<<"8">>), Text(<<"10">>), Text(<<"8">>)>>,
     <<Text(<<"-">>), Num(100), NaN>>,
     <<Num(80), NaN, Num(800)>>,
     <<Text(<<"AB">>), Num(100), NaN>>,
     <<Num(80), Num(100), Text(<<"AB">>)>>,
     <<Num(80), Date, NaN>>}

FewTriples ==
    {<<Num(60), Num(60), NaN>>, <<NaN, NaN, NaN>>,
     <<Num(30), Text(<<"AB">>), NaN>>}

RegCells == {Text(<<"21IT001">>), Text(<<"21IT002">>), NaN, Text(<<"nan">>)}

DataRow(reg, name, first, second) ==
    Pad(<<Text(<<"A1">>), reg, name>> \o first \o second)

PlainRows ==
    <<DataRow(Text(<<"21IT001">>), Text(<<"Asha">>),
              <<Num(80), Num(100), NaN>>, <<Num(60), Num(60), NaN>>),
      DataRow(Text(<<"21IT002">>), Text(<<"Ravi">>),
              <<Num(50), Num(100), Num(500)>>, <<Num(30), Num(60), NaN>>)>>

AnyRows == {DataRow(reg, Text(<<"Asha">>), first, second) :
               reg \in RegCells, first \in CellTriples, second \in FewTriples}

FewRows == {DataRow(Text(<<"21IT002">>), NaN, first, second) :
               first \in FewTriples, second \in FewTriples}

Report(course_row, header_row, data_rows) ==
    <<TitleRow, BlankRow, TitleRow, BlankRow, course_row, BlankRow,
      header_row>> \o data_rows

Prefixes(grid) == {SubSeq(grid, 1, n) : n \in 0..Len(grid)}

Sheets ==
    UNION {Prefixes(Report(c, h, PlainRows)) \cup Prefixes(<<h>> \o PlainRows) :
              c \in CourseRows, h \in HeaderRows}
    \cup {Report(c, h, <<a, b>>) :
              c \in {Pad(<<NaN, NaN, NaN,
                          CourseCell("22IT580", <<"Data", "Structures">>),
                          NaN, NaN, CourseCell("22ITGB0", <<"Networks">>)>>)},
              h \in {Pad(<<Text(<<"Admission", "No">>),
                          Text(<<"Registration", "No">>),
                          Text(<<"Student", "Name">>)>> \o Triple \o Triple)},
              a \in AnyRows, b \in FewRows}
    \cup {Report(c, h, <<b, a>>) :
              c \in {Pad(<<NaN, NaN, NaN,
                          CourseCell("22IT580", <<"Data", "Structures">>),
                          NaN, NaN, CourseCell("22ITGB0", <<"Networks">>)>>)},
              h \in {Pad(<<Text(<<"Admission", "No">>),
                          Text(<<"Registration", "No">>),
                          Text(<<"Student", "Name">>)>> \o Triple \o Triple)},
              a \in AnyRows, b \in FewRows}

(***************************************************************************)
(* The parser as steps of the request thread: each allowed file of the     *)
(* request holds the sheet df.                                             *)
(***************************************************************************)
InitParse ==
    /\ InitCommon /\ sheet = None /\ inputs \in OneOf(InputScopes)
    /\ df \in Sheets
    /\ parse_pc = "ready"
    /\ courses_info = <<>>
    /\ data_start_row = 0
    /\ column_mapping = None
    /\ processed_data = None
    /\ IdleQuery /\ IdleOrder /\ IdleRuns

\* app.py 111 and lines 85-96, 142: the file is read, the header is scanned
ExtractCourseInfo ==
    /\ pc = "loop"
    /\ k < nfiles
    /\ parse_pc = "ready"
    /\ pc' = "parse"
    /\ courses_info' = extract_course_info_from_header(df)
    /\ parse_pc' = "courses"
    /\ UNCHANGED <<db, session, uploadVars, loopVars, totals, entityVars,
                   mergeVars, result, sheet, inputs, df, data_start_row,
                   column_mapping, processed_data, queryVars, orderVars, runVars>>

\* line 146
FindDataStartRow ==
    /\ parse_pc = "courses"
    /\ data_start_row' = find_data_start_row(df)
    /\ parse_pc' = "start_row"
    /\ UNCHANGED <<ingestVars, df, courses_info, column_mapping,
                   processed_data, queryVars, orderVars, runVars>>

\* lines 147-150, and 221-223 when df.iloc raises
MapColumns ==
    /\ parse_pc = "start_row"
    /\ IF HeaderRowMissing(df, data_start_row)
       THEN /\ processed_data' = None
            /\ parse_pc' = "returned"
            /\ UNCHANGED column_mapping
       ELSE /\ column_mapping' =
                  map_columns_to_courses(df[data_start_row], courses_info)
            /\ parse_pc' = "mapped"
            /\ UNCHANGED processed_data
    /\ UNCHANGED <<ingestVars, df, courses_info, data_start_row, queryVars,
                   orderVars, runVars>>

\* lines 153-223: the rows, and the return
ProcessRows ==
    /\ parse_pc = "mapped"
    /\ LET got == ExtractRows(df, data_start_row, column_mapping,
                              FirstCourseName(courses_info))
       IN processed_data' =
             IF got.kind = "abort" THEN None
             ELSE [students |-> got.students,
                   attendance |-> got.attendance,
                   courses |-> courses_info]
    /\ parse_pc' = "returned"
    /\ UNCHANGED <<ingestVars, df, courses_info, data_start_row,
                   column_mapping, queryVars, orderVars, runVars>>

\* app.py 147-152: save_to_database(processed_data) if there is one, else
\* False (with app.py 114-126)
HandOver ==
    /\ parse_pc = "returned"
    /\ IF processed_data = None
       THEN /\ errors' = AfterFile(
                           Append(errors, ErrorEntry("Failed to process", k + 1)),
                           k + 1)
            /\ k' = k + 1
            /\ pc' = "loop"
            /\ result' = "False"
            /\ UNCHANGED <<sheet, loopVars>>
       ELSE /\ sheet' = processed_data
            /\ pc' = "save"
            /\ ci' = 0 /\ si' = 0 /\ i' = 0
            /\ UNCHANGED <<errors, k, result>>
    /\ parse_pc' = "ready"
    /\ courses_info' = <<>>
    /\ data_start_row' = 0
    /\ column_mapping' = None
    /\ processed_data' = None
    /\ UNCHANGED <<db, session, nfiles, processed_files, response, totals,
                   entityVars, mergeVars, inputs, df, queryVars, orderVars, runVars>>

NextParse ==
    \/ StartUpload
    \/ ExtractCourseInfo
    \/ FindDataStartRow
    \/ MapColumns
    \/ ProcessRows
    \/ HandOver
    \/ CourseStep
    \/ StudentStep
    \/ CommitEntities
    \/ MergeStep
    \/ FinalCommit
    \/ Raise
    \/ Respond

SpecParse == InitParse /\ [][NextParse]_vars

(***************************************************************************)
(* save_to_database as a function of the store and the parsed file, when   *)
(* no statement raises: the three loops in their order.  It is applied to  *)
(* two parsed files in both orders.                                        *)
(***************************************************************************)
\* lines 232-239
RECURSIVE SaveCourses(_, _)
SaveCourses(s, infos) ==
    IF infos = <<>> THEN s
    ELSE SaveCourses(SaveCourse(s, Head(infos)), Tail(infos))

\* lines 242-250
RECURSIVE SaveStudents(_, _)
SaveStudents(s, students) ==
    IF students = <<>> THEN s
    ELSE SaveStudents(SaveStudent(s, Head(students)), Tail(students))

\* lines 261-316
RECURSIVE MergeAll(_, _)
MergeAll(s, tuples) ==
    IF tuples = <<>> THEN s
    ELSE MergeAll(MergeOne(s, Head(tuples)).store, Tail(tuples))

\* lines 225-321
Ingest(s, parsed) ==
    MergeAll(SaveStudents(SaveCourses(s, parsed.courses), parsed.students),
             parsed.attendance)

OrderScope ==
    [regs |-> RegNos, codes |-> OneOf(CourseCodes),
     descriptions |-> OneOf(Descriptions), payloads |-> OneOf(Payloads)]

InitOrder ==
    /\ InitCommon /\ sheet = None /\ inputs = OrderScope
    /\ file_pair \in ParsedFiles \X ParsedFiles
    /\ stores_after = [first |-> None, both |-> None, reversed |-> None]
    /\ IdleParse /\ IdleQuery /\ IdleRuns

\* the first file, then the second
IngestInOrder ==
    /\ stores_after.both = None
    /\ LET first == Ingest(EmptyStore, file_pair[1])
       IN stores_after' = [stores_after EXCEPT
                              !.first = first,
                              !.both = Ingest(first, file_pair[2])]
    /\ UNCHANGED <<ingestVars, parseVars, queryVars, file_pair, runVars>>

\* the second file, then the first
IngestReversed ==
    /\ stores_after.reversed = None
    /\ stores_after' = [stores_after EXCEPT
                           !.reversed = Ingest(Ingest(EmptyStore, file_pair[2]),
                                               file_pair[1])]
    /\ UNCHANGED <<ingestVars, parseVars, queryVars, file_pair, runVars>>

NextOrder == IngestInOrder \/ IngestReversed

SpecOrder == InitOrder /\ [][NextOrder]_vars

(***************************************************************************)
(* AttendanceService.get_filtered_attendance_records.  The strings of the  *)
(* store are compared character by character: Chars gives the characters   *)
(* of a string, CodePoint their order (the binary collation of ORDER BY).  *)
(***************************************************************************)
Chars ==
    ("" :> <<>>)
    @@ ("21IT001" :> <<"2", "1", "I", "T", "0", "0", "1">>)
    @@ ("21IT002" :> <<"2", "1", "I", "T", "0", "0", "2">>)
    @@ ("22IT580" :> <<"2", "2", "I", "T", "5", "8", "0">>)
    @@ ("22ITGB0" :> <<"2", "2", "I", "T", "G", "B", "0">>)
    @@ ("Asha" :> <<"A", "s", "h", "a">>)
    @@ ("Ravi" :> <<"R", "a", "v", "i">>)
    @@ ("ASHA" :> <<"A", "S", "H", "A">>)
    @@ ("21it" :> <<"2", "1", "i", "t">>)
    @@ ("002" :> <<"0", "0", "2">>)

CodePoint ==
    ("0" :> 48) @@ ("1" :> 49) @@ ("2" :> 50) @@ ("5" :> 53) @@ ("8" :> 56)
    @@ ("B" :> 66) @@ ("G" :> 71) @@ ("I" :> 73) @@ ("T" :> 84)

\* str.lower() and func.lower, character by character
LowerChar(ch) ==
    CASE ch = "A" -> "a" [] ch = "S" -> "s" [] ch = "H" -> "h"
      [] ch = "R" -> "r" [] ch = "I" -> "i" [] ch = "T" -> "t"
      [] ch = "G" -> "g" [] ch = "B" -> "b" [] OTHER -> ch

Lower(text) == [j \in 1..Len(text) |-> LowerChar(text[j])]

\* a < b in ORDER BY ... ASC
StrLess(a, b) ==
    \E p \in 1..(Len(Chars[b])) :
        /\ \A j \in 1..(p - 1) : j <= Len(Chars[a]) /\ Chars[a][j] = Chars[b][j]
        /\ \/ p = Len(Chars[a]) + 1
           \/ /\ p <= Len(Chars[a])
              /\ CodePoint[Chars[a][p]] < CodePoint[Chars[b][p]]

\* db.session.query(AttendanceRecord).join(Student).join(Course)
Joined(s) ==
    {[record |-> rec, student |-> st, course |-> co] :
        rec \in BagToSet(s.records), st \in s.students, co \in s.courses}
    \cap {x \in [record : BagToSet(s.records), student : s.students,
                 course : s.courses] :
            x.record.student_id = x.student.id /\ x.record.course_id = x.course.id}

\* the <= that a slip of the comparison would give
AtOrBelowThreshold(percentage, threshold) == percentage <= threshold

\* line 131: AttendanceRecord.attendance_percentage < threshold
BelowThreshold(percentage, threshold) == percentage < threshold

\* line 130: "if threshold < 100"
NoThreshold == 100

\* lines 133-140
MatchesSearch(x, search) ==
    \/ Contains(Lower(Chars[x.student.name]), Lower(Chars[search]))
    \/ Contains(Lower(Chars[x.student.registration_no]), Lower(Chars[search]))

\* lines 120-140
Filtered(s, args) ==
    {x \in Joined(s) :
        /\ args.course_code # "" => x.course.course_code = args.course_code
        /\ args.exclude_courses # {} =>
              x.course.course_code \notin args.exclude_courses
        /\ args.threshold < NoThreshold =>
              BelowThreshold(x.record.attendance_percentage, args.threshold)
        /\ args.search # "" => MatchesSearch(x, args.search)}

\* lines 142-146: the ORDER BY
OrderedBefore(x, y) ==
    \/ x.record.attendance_percentage < y.record.attendance_percentage
    \/ /\ x.record.attendance_percentage = y.record.attendance_percentage
       /\ \/ StrLess(x.student.registration_no, y.student.registration_no)
          \/ /\ x.student.registration_no = y.student.registration_no
             /\ StrLess(x.course.course_code, y.course.course_code)

RECURSIVE Sorted(_)
Sorted(S) ==
    IF S = {} THEN <<>>
    ELSE LET least == CHOOSE x \in S :
                         \A y \in S \ {x} : OrderedBefore(x, y)
         IN <<least>> \o Sorted(S \ {least})

\* lines 117-146
get_filtered_attendance_records(s, args) == Sorted(Filtered(s, args))

\* the stores queried: two students, two courses, and for each pair no
\* record or one with one of three percentages
QueryStudents ==
    {[id |-> 1, admission_no |-> "A1", registration_no |-> "21IT001",
      name |-> "Asha"],
     [id |-> 2, admission_no |-> "A2", registration_no |-> "21IT002",
      name |-> "Ravi"]}

QueryCourses ==
    {[id |-> 1, course_code |-> "22IT580", course_name |-> "Data Structures"],
     [id |-> 2, course_code |-> "22ITGB0", course_name |-> "Networks"]}

Percentages == {60, 75, 90}

QueryStores ==
    {[students |-> QueryStudents, courses |-> QueryCourses,
      records |-> SetToBag(
          {[student_id |-> sc[1], course_id |-> sc[2],
            attended_periods |-> 3, conducted_periods |-> MinConducted,
            attendance_percentage |-> choice[sc]] :
              sc \in {p \in (1..2) \X (1..2) : choice[p] # 0}})] :
        choice \in [(1..2) \X (1..2) -> Percentages \cup {0}]}

QueryArgs ==
    [course_code : {"", "22IT580"},
     threshold : {65, 75, NoThreshold},
     search : {"", "ASHA", "21it", "002"},
     exclude_courses : {{}, {"22ITGB0"}}]

InitQuery ==
    /\ InitCommon /\ sheet = None /\ inputs \in OneOf(InputScopes)
    /\ IdleParse /\ IdleOrder /\ IdleRuns
    /\ query_args \in QueryArgs
    /\ query_result = None

\* before the request: the store is as some ingestion left it
LoadStore ==
    /\ pc = "idle"
    /\ db = EmptyStore
    /\ \E s \in QueryStores : db' = s /\ session' = s
    /\ UNCHANGED <<pc, nfiles, k, processed_files, errors, response, ci, si,
                   i, batch_count, total_added, total_updated, total_skipped,
                   course_entry, student_descriptor, attendance_tuple,
                   printed, result, sheet, inputs, parseVars, queryVars,
                   orderVars, runVars>>

\* app.py 158-177: the query of /api/attendance
GetFilteredAttendanceRecords ==
    /\ query_result = None
    /\ query_result' =
          [rows |-> get_filtered_attendance_records(session, query_args)]
    /\ UNCHANGED <<ingestVars, parseVars, query_args, orderVars, runVars>>

NextQuery == LoadStore \/ GetFilteredAttendanceRecords

SpecQuery == InitQuery /\ [][NextQuery]_vars


(***************************************************************************)
(* find_data_start_row on its own: grids of up to MaxRows rows drawn from  *)
(* rows with a marker (in one cell, across two cells, in lower case) and   *)
(* rows without one, and the sheets of the parser.                         *)
(***************************************************************************)
StartRows ==
    {BlankRow,
     TitleRow,
     Pad(<<Text(<<"Admission", "No">>), Text(<<"Name">>)>>),
     Pad(<<NaN, Text(<<"student", "name">>)>>),
     Pad(<<Text(<<"Registration">>), Text(<<"No">>)>>),
     Pad(<<Text(<<"No">>), Text(<<"Admission">>), NaN, Text(<<"Student">>)>>),
     Pad(<<Text(<<"Admission">>), NaN, Num(30), Text(<<"No">>)>>),
     PlainRows[1]}

RECURSIVE GridsOf(_)
GridsOf(n) ==
    IF n = 0 THEN {<<>>}
    ELSE LET shorter == GridsOf(n - 1)
         IN shorter \cup {Append(g, r) : g \in {h \in shorter : Len(h) = n - 1},
                                          r \in StartRows}

StartGrids == GridsOf(MaxRows) \cup Sheets

InitStart ==
    /\ InitCommon /\ sheet = None /\ inputs \in OneOf(InputScopes)
    /\ df \in StartGrids
    /\ parse_pc = "courses"
    /\ courses_info = <<>>
    /\ data_start_row = 0
    /\ column_mapping = None
    /\ processed_data = None
    /\ IdleQuery /\ IdleOrder /\ IdleRuns

NextStart == FindDataStartRow

SpecStart == InitStart /\ [][NextStart]_vars

(***************************************************************************)
(* Two ingestion runs at once, each in a request thread with a session of  *)
(* its own, each merging one attendance tuple of the same (student,        *)
(* course) pair.  The student and the course are committed (line 252)      *)
(* before the runs reach the loop of lines 261-316.  A query reads the     *)
(* committed store; a session keeps the object it has loaded; the flush of *)
(* the commit of line 319 writes the columns the run has changed, and the  *)
(* constraint unique_student_course rejects a second row for the pair.     *)
(***************************************************************************)
Runs == {1, 2}

RunStudent ==
    [id |-> 1, admission_no |-> "A1", registration_no |-> "21IT001",
     name |-> "Asha"]

RunCourse ==
    [id |-> 1, course_code |-> "22IT580", course_name |-> "Data Structures"]

\* the tuples of the two runs: below the minimum, equal to the stored
\* count, and two counts above it
RunConducted == (MinConducted - 1)..(MinConducted + 2)

RunTuples ==
    {[registration_no |-> "21IT001", course_code |-> "22IT580",
      attended_periods |-> v[1], conducted_periods |-> n,
      attendance_percentage |-> v[2]] : n \in RunConducted, v \in Payloads}

\* the stores the runs start from: no record for the pair, or one
BaseStores ==
    {[students |-> {RunStudent}, courses |-> {RunCourse},
      records |-> EmptyBag]}
    \cup {[students |-> {RunStudent}, courses |-> {RunCourse},
           records |-> SetToBag({[student_id |-> 1, course_id |-> 1,
                                  attended_periods |-> 1,
                                  conducted_periods |-> MinConducted,
                                  attendance_percentage |-> 20]})]}

NoWrite == [op |-> "none"]

InitRuns ==
    /\ InitCommon /\ sheet = None /\ inputs \in OneOf(InputScopes)
    /\ IdleParse /\ IdleQuery /\ IdleOrder
    /\ base \in BaseStores
    /\ runs \in [Runs -> {[at |-> "loop", attendance_data |-> t,
                           student |-> None, course |-> None,
                           existing_record |-> None, pending |-> NoWrite,
                           returned |-> "None"] : t \in RunTuples}]

\* the runs start when the store holds what they start from
BeginRuns ==
    /\ pc = "idle"
    /\ db = EmptyStore
    /\ db' = base
    /\ session' = base
    /\ UNCHANGED <<pc, nfiles, k, processed_files, errors, response, ci, si,
                   i, batch_count, total_added, total_updated, total_skipped,
                   course_entry, student_descriptor, attendance_tuple,
                   printed, result, sheet, inputs, parseVars, queryVars,
                   orderVars, runVars>>

\* lines 263-275: the test of the minimum and the three queries
RunLookup(p) ==
    /\ db # EmptyStore
    /\ runs[p].at = "loop"
    /\ LET attendance_data == runs[p].attendance_data
           student == FirstStudent(db, attendance_data.registration_no)
           course == FirstCourse(db, attendance_data.course_code)
       IN runs' = [runs EXCEPT ![p] =
              IF BelowMinimum(attendance_data)
              THEN [@ EXCEPT !.at = "commit"]
              ELSE [@ EXCEPT !.at = "merge",
                             !.student = student,
                             !.course = course,
                             !.existing_record =
                                 FirstRecord(db, student.id, course.id)]]
    /\ UNCHANGED <<ingestVars, parseVars, queryVars, orderVars, base>>

\* lines 277-300: the change the run makes in its session
RunMerge(p) ==
    /\ runs[p].at = "merge"
    /\ LET attendance_data == runs[p].attendance_data
           existing_record == runs[p].existing_record
       IN runs' = [runs EXCEPT ![p] = [@ EXCEPT
              !.at = "commit",
              !.pending =
                  IF existing_record # None
                  THEN IF HasMoreConducted(attendance_data, existing_record)
                       THEN [op |-> "update",
                             row |-> Overwritten(existing_record,
                                                 attendance_data)]
                       ELSE NoWrite
                  ELSE [op |-> "insert",
                        row |-> NewRecord(runs[p].student, runs[p].course,
                                          attendance_data)]]]
    /\ UNCHANGED <<ingestVars, parseVars, queryVars, orderVars, base>>

\* the UPDATE of a flush: the columns whose value the run has changed
Flushed(stored, loaded, row) ==
    [stored EXCEPT
        !.attended_periods =
            IF row.attended_periods # loaded.attended_periods
            THEN row.attended_periods ELSE @,
        !.conducted_periods =
            IF row.conducted_periods # loaded.conducted_periods
            THEN row.conducted_periods ELSE @,
        !.attendance_percentage =
            IF row.attendance_percentage # loaded.attendance_percentage
            THEN row.attendance_percentage ELSE @]

\* lines 319-321, and 323-326 when the INSERT breaks unique_student_course
RunCommit(p) ==
    /\ runs[p].at = "commit"
    /\ LET pending == runs[p].pending
           stored == FirstRecord(db, RunStudent.id, RunCourse.id)
       IN CASE pending.op = "insert" /\ stored # None ->
                 /\ runs' = [runs EXCEPT ![p] =
                        [@ EXCEPT !.at = "done", !.returned = "False"]]
                 /\ UNCHANGED db
            [] pending.op = "insert" /\ stored = None ->
                 /\ db' = [db EXCEPT !.records = @ (+) SetToBag({pending.row})]
                 /\ runs' = [runs EXCEPT ![p] =
                        [@ EXCEPT !.at = "done", !.returned = "True"]]
            [] pending.op = "update" ->
                 /\ db' = [db EXCEPT !.records =
                        (@ (-) SetToBag({stored})) (+)
                        SetToBag({Flushed(stored, runs[p].existing_record,
                                          pending.row)})]
                 /\ runs' = [runs EXCEPT ![p] =
                        [@ EXCEPT !.at = "done", !.returned = "True"]]
            [] OTHER ->
                 /\ runs' = [runs EXCEPT ![p] =
                        [@ EXCEPT !.at = "done", !.returned = "True"]]
                 /\ UNCHANGED db
    /\ UNCHANGED <<session, pc, nfiles, k, processed_files, errors, response,
                   ci, si, i, batch_count, total_added, total_updated,
                   total_skipped, course_entry, student_descriptor,
                   attendance_tuple, printed, result, sheet, inputs,
                   parseVars, queryVars, orderVars, base>>

NextRuns ==
    \/ BeginRuns
    \/ \E p \in Runs : RunLookup(p)
    \/ \E p \in Runs : RunMerge(p)
    \/ \E p \in Runs : RunCommit(p)

SpecRuns == InitRuns /\ [][NextRuns]_vars

(***************************************************************************)
(* The parser and the save on sheets with counts and percentages outside   *)
(* their ranges: a negative attended or conducted cell, more periods       *)
(* attended than conducted, an explicit percentage above 100 or below 0.   *)
(***************************************************************************)
RangeTriples ==
    {<<Num(80), Num(100), NaN>>,
     <<Num(-30), Num(100), NaN>>,
     <<Num(120), Num(100), NaN>>,
     <<Num(80), Num(100), Num(1500)>>,
     <<Num(80), Num(100), Num(-50)>>,
     <<Num(80), Num(-100), NaN>>}

RangeSheets ==
    {Report(Pad(<<NaN, NaN, NaN,
                  CourseCell("22IT580", <<"Data", "Structures">>),
                  NaN, NaN, CourseCell("22ITGB0", <<"Networks">>)>>),
            Pad(<<Text(<<"Admission", "No">>), Text(<<"Registration", "No">>),
                  Text(<<"Student", "Name">>)>> \o Triple \o Triple),
            <<DataRow(Text(<<"21IT001">>), Text(<<"Asha">>), first, second),
              PlainRows[2]>>) :
        first \in RangeTriples, second \in RangeTriples}

InitRange ==
    /\ InitCommon /\ sheet = None /\ inputs \in OneOf(InputScopes)
    /\ df \in RangeSheets
    /\ parse_pc = "ready"
    /\ courses_info = <<>>
    /\ data_start_row = 0
    /\ column_mapping = None
    /\ processed_data = None
    /\ IdleQuery /\ IdleOrder /\ IdleRuns

SpecRange == InitRange /\ [][NextParse]_vars

(***************************************************************************)
(* Vocabulary of the properties.                                           *)
(***************************************************************************)
\* the AttendanceRecord of a (registration number, course code) pair, or None
RecordOf(s, registration_no, course_code) ==
    LET student == FirstStudent(s, registration_no)
        course == FirstCourse(s, course_code)
    IN IF student = None THEN None
       ELSE IF course = None THEN None
       ELSE FirstRecord(s, student.id, course.id)

\* its conducted_periods, 0 when the pair has no record
ConductedOf(s, registration_no, course_code) ==
    LET r == RecordOf(s, registration_no, course_code)
    IN IF r = None THEN 0 ELSE r.conducted_periods

\* this step is one iteration of the attendance loop
IsMergeStep == pc = "merge" /\ i' = i + 1

\* this step is the except branch of save_to_database
IsRaise == pc \in {"save", "merge"} /\ result' = "False" /\ pc' = "loop"

\* the three unique constraints of models.py, on one store
UniqueKeys(s) ==
    /\ \A a, b \in s.students : a.registration_no = b.registration_no => a = b
    /\ \A a, b \in s.courses : a.course_code = b.course_code => a = b
    /\ \A a, b \in BagToSet(s.records) :
          (a.student_id = b.student_id /\ a.course_id = b.course_id) => a = b
    /\ \A a \in BagToSet(s.records) : CopiesIn(a, s.records) = 1

(***************************************************************************)
(* C1.  For every (student, course) pair the persisted conducted_periods   *)
(* never decreases: no step of any ingestion run, successful or failed,    *)
(* leaves the committed store with a smaller value for a pair than before. *)
(***************************************************************************)
C1_ConductedNeverDecreases ==
    [][\A r \in RegNos, c \in CourseCodes :
          ConductedOf(db', r, c) >= ConductedOf(db, r, c)]_vars

\* a second run has raised the persisted value of a record the first run
\* committed, and both runs are over
C1_Witness ==
    /\ pc = "loop" /\ k = 2 /\ processed_files = 2
    /\ total_added = 0 /\ total_updated = 1
    /\ \E r \in RegNos, c \in CourseCodes : ConductedOf(db, r, c) = MaxConducted

(***************************************************************************)
(* C2.  A tuple whose pair has a stored record with conducted_periods >=   *)
(* the incoming conducted_periods (equal included) leaves the store as it  *)
(* was and is counted as skipped, and as nothing else.                     *)
(***************************************************************************)
C2_StaleTupleSkipped ==
    [][(/\ IsMergeStep
        /\ ConductedOf(session, attendance_tuple'.registration_no,
                       attendance_tuple'.course_code)
              >= attendance_tuple'.conducted_periods
        /\ RecordOf(session, attendance_tuple'.registration_no,
                    attendance_tuple'.course_code) # None)
       => /\ session' = session
          /\ total_skipped' = total_skipped + 1
          /\ total_added' = total_added
          /\ total_updated' = total_updated]_vars

\* a tuple with the stored conducted_periods and another attended_periods was
\* skipped, and the record still holds the old attended_periods
C2_Witness ==
    /\ pc = "merge" /\ printed = "skip_existing" /\ total_skipped >= 1
    /\ LET r == RecordOf(session, attendance_tuple.registration_no,
                         attendance_tuple.course_code)
       IN /\ r # None
          /\ r.conducted_periods = attendance_tuple.conducted_periods
          /\ r.attended_periods # attendance_tuple.attended_periods

(***************************************************************************)
(* C3.  A tuple with conducted_periods >= 5 whose pair has a stored record *)
(* with strictly fewer conducted_periods replaces attended_periods,        *)
(* conducted_periods and attendance_percentage of that record by its own   *)
(* three values, changes no other record, and is counted as updated.       *)
(***************************************************************************)
C3_FresherTupleOverwrites ==
    [][LET t == attendance_tuple'
           old == RecordOf(session, t.registration_no, t.course_code)
           new == RecordOf(session', t.registration_no, t.course_code)
       IN (/\ IsMergeStep
           /\ t.conducted_periods >= MinConducted
           /\ old # None
           /\ old.conducted_periods < t.conducted_periods)
          => /\ new # None
             /\ new.attended_periods = t.attended_periods
             /\ new.conducted_periods = t.conducted_periods
             /\ new.attendance_percentage = t.attendance_percentage
             /\ new.student_id = old.student_id
             /\ new.course_id = old.course_id
             /\ session'.records (-) SetToBag({new})
                  = session.records (-) SetToBag({old})
             /\ session'.students = session.students
             /\ session'.courses = session.courses
             /\ total_updated' = total_updated + 1
             /\ total_added' = total_added
             /\ total_skipped' = total_skipped]_vars

\* an update has happened and the record holds the three incoming values
C3_Witness ==
    /\ pc = "merge" /\ printed = "updating" /\ total_updated >= 1
    /\ LET r == RecordOf(session, attendance_tuple.registration_no,
                         attendance_tuple.course_code)
       IN /\ r # None
          /\ r.conducted_periods = attendance_tuple.conducted_periods
          /\ r.attended_periods = attendance_tuple.attended_periods
          /\ r.attendance_percentage = attendance_tuple.attendance_percentage

(***************************************************************************)
(* C4.  A tuple with conducted_periods < 5 changes neither the session nor *)
(* the committed store and is counted as skipped, and as nothing else; and *)
(* every record of the store has conducted_periods >= 5.                   *)
(***************************************************************************)
C4_BelowMinimumNeverStored ==
    [][/\ (IsMergeStep /\ attendance_tuple'.conducted_periods < MinConducted)
          => /\ session' = session
             /\ db' = db
             /\ total_skipped' = total_skipped + 1
             /\ total_added' = total_added
             /\ total_updated' = total_updated
       /\ \A r \in BagToSet(session'.records) \cup BagToSet(db'.records) :
             r.conducted_periods >= MinConducted]_vars

\* a tuple with 4 conducted periods for a known student and course without a
\* record was skipped, and the pair still has no record
C4_Witness ==
    /\ pc = "merge" /\ printed = "skip_minimum" /\ total_skipped >= 1
    /\ attendance_tuple.conducted_periods = MinConducted - 1
    /\ FirstStudent(session, attendance_tuple.registration_no) # None
    /\ FirstCourse(session, attendance_tuple.course_code) # None
    /\ RecordOf(session, attendance_tuple.registration_no,
                attendance_tuple.course_code) = None

(***************************************************************************)
(* C5.  Under SpecReingest every sheet of the request is the same parsed   *)
(* file.  Once one ingestion of it has succeeded, no later ingestion of it *)
(* adds or updates a record or creates a Student or Course row: the        *)
(* students, courses and records of the session and of the committed store *)
(* stay as they are, the added and updated counters of every later merge   *)
(* stay at zero, and every tuple the later merge handles is counted        *)
(* skipped.                                                                *)
(***************************************************************************)
C5_ReingestionChangesNothing ==
    [][processed_files >= 1 =>
          /\ session'.students = session.students
          /\ session'.courses = session.courses
          /\ session'.records = session.records
          /\ db' = db
          /\ (pc' = "merge" => total_added' = 0 /\ total_updated' = 0)
          /\ (IsMergeStep => total_skipped' = total_skipped + 1)]_vars

\* the same file has been ingested twice with success, it holds tuples that
\* were stored by the first ingestion, and the second one skipped them all
C5_Witness ==
    /\ sheet # None
    /\ pc = "loop"
    /\ processed_files = 2
    /\ result = "True"
    /\ db.students # {} /\ db.courses # {} /\ db.records # EmptyBag
    /\ \E j \in 1..Len(sheet.attendance) :
          sheet.attendance[j].conducted_periods >= MinConducted
    /\ total_added = 0 /\ total_updated = 0
    /\ total_skipped = Len(sheet.attendance)

(***************************************************************************)
(* C6.  The committed store and the session hold at most one Student per   *)
(* registration number, one Course per course code and one                 *)
(* AttendanceRecord per (student, course) pair, in every state.            *)
(***************************************************************************)
C6_OneRowPerKey == UniqueKeys(db) /\ UniqueKeys(session)

\* the first file listed one pair twice (added, then updated), and the second
\* file has listed two courses and two students while the session still holds
\* one course, one student and one record
C6_Witness ==
    /\ pc = "save" /\ k = 1 /\ result = "True"
    /\ total_added = 1 /\ total_updated = 1
    /\ ci = 2 /\ si = 2
    /\ Cardinality(session.courses) = 1
    /\ Cardinality(session.students) = 1
    /\ BagCardinality(session.records) = 1

(***************************************************************************)
(* C7.  No step removes or changes a committed Student or Course row, and  *)
(* no step other than a rollback removes or changes one of the session:    *)
(* admission number, name and course name stay those of the first sighting.*)
(***************************************************************************)
C7_EntitiesNeverRewritten ==
    [][/\ db.students \subseteq db'.students
       /\ db.courses \subseteq db'.courses
       /\ ~IsRaise => /\ session.students \subseteq session'.students
                      /\ session.courses \subseteq session'.courses]_vars

\* a later file has brought a known registration number and a known course
\* code with other descriptive values, and the rows are those of the first file
C7_Witness ==
    /\ pc = "save" /\ k = 1
    /\ student_descriptor # None /\ course_entry # None
    /\ LET student == FirstStudent(db, student_descriptor.registration_no)
           course == FirstCourse(db, course_entry.code)
       IN /\ student # None /\ course # None
          /\ student.admission_no # student_descriptor.admission_no
          /\ student.name # student_descriptor.name
          /\ course.course_name # course_entry.name
          /\ FirstStudent(session, student_descriptor.registration_no) = student
          /\ FirstCourse(session, course_entry.code) = course
          /\ Cardinality(session.students) = 1
          /\ Cardinality(session.courses) = 1

(***************************************************************************)
(* C8.  The except branch of save_to_database commits nothing and leaves   *)
(* the session equal to the committed store: the store is the one of the   *)
(* last commit, with the file's students, courses and committed batches.   *)
(***************************************************************************)
C8_FailureRollsBackToLastCommit ==
    [][IsRaise => (db' = db /\ session' = db)]_vars

\* the first file failed after one batch was committed: of its two additions
\* one is in the store and the other is gone, its student and course stay
C8_Witness ==
    /\ pc = "loop" /\ k = 1 /\ result = "False"
    /\ total_added = 2
    /\ BagCardinality(db.records) = 1
    /\ session = db
    /\ db.students # {} /\ db.courses # {}

(***************************************************************************)
(* C9.  A step that records the failure of a file leaves the committed     *)
(* store as it was, leaves nothing pending in the session and returns to   *)
(* the loop with one more file done; and while files remain the loop can   *)
(* parse and save the next one.                                            *)
(***************************************************************************)
FileFails ==
    /\ pc \in {"loop", "save", "merge"}
    /\ Len(errors') > Len(errors)
    /\ processed_files' = processed_files

C9_FailuresDoNotCascade ==
    /\ [][FileFails => /\ db' = db
                       /\ session' = db
                       /\ pc' = "loop"
                       /\ k' = k + 1
                       /\ nfiles' = nfiles]_vars
    /\ []((pc = "loop" /\ k < nfiles) => ENABLED BeginSave)

\* the first file failed, the second was saved and its record is committed
C9_Witness ==
    /\ pc = "loop" /\ k = 2 /\ processed_files = 1 /\ result = "True"
    /\ \E e \in 1..Len(errors) :
          errors[e] = ErrorEntry("Failed to process", 1)
    /\ total_added >= 1
    /\ db.records # EmptyBag

(***************************************************************************)
(* C10.  The success response names as the number of files with errors the *)
(* number of files of the request that were not processed successfully,    *)
(* and mentions errors only when there is such a file.                     *)
(***************************************************************************)
C10_ErrorCountIsFailedFiles ==
    (pc = "done" /\ response.status = 200)
    => /\ response.processed = processed_files
       /\ response.error_count = nfiles - processed_files
       /\ response.names_errors = (nfiles - processed_files > 0)

(***************************************************************************)
(* C11.  A sheet with no course-header match or with no marker row never   *)
(* makes the file fail: when _process_dataframe returns for a sheet none   *)
(* of whose rows holds a marker, the data start is the fallback row 7 and  *)
(* a result is returned, and for a sheet without a course match the course *)
(* set is empty and a result is returned, whatever the number of rows.     *)
(***************************************************************************)
C11_MalformedLayoutNeverFails ==
    parse_pc = "returned" =>
        /\ MarkerRows(df) = {} =>
              data_start_row = FallbackStartRow /\ processed_data # None
        /\ extract_course_info_from_header(df) = <<>> =>
              courses_info = <<>> /\ processed_data # None

\* the cells of one row at the columns of one course group, None past the edge
GroupCells(cells, group) ==
    [attended |-> ColAt(cells, group.attended),
     conducted |-> ColAt(cells, group.conducted),
     percentage |-> ColAt(cells, group.percentage)]

\* the percentage cell is blank or the placeholder
BlankPercentage(cell) == ~NotNa(cell) \/ Str(cell) = <<"-">>

\* tuple t was read from these cells of a row whose registration cell is reg
ReadFrom(t, reg, group, at) ==
    /\ t.registration_no = StrOrEmpty(reg)
    /\ t.course_code = group.code
    /\ at.attended # None /\ at.conducted # None /\ at.percentage # None
    /\ Float(at.attended).ok /\ Float(at.conducted).ok
    /\ t.attended_periods = Trunc(Float(at.attended).tenths)
    /\ t.conducted_periods = Trunc(Float(at.conducted).tenths)

\* the data rows of df (source indices) once the column map is known
DataRowIndices == data_start_row..(Len(df) - 1)

(***************************************************************************)
(* C13.  Every tuple of the parser's result was read from a data row and a *)
(* course group such that: when the percentage cell is blank or '-', the   *)
(* tuple's percentage p satisfies p * conducted = attended * 100 if        *)
(* conducted > 0 and p = 0 if conducted = 0; when the cell holds a value,  *)
(* p is that value.  Percentages are ratios <<n, d>> in lowest terms.      *)
(***************************************************************************)
C13_PercentageComputedOrLiteral ==
    (parse_pc = "returned" /\ processed_data # None) =>
        \A j \in 1..Len(processed_data.attendance) :
            LET t == processed_data.attendance[j]
                p == t.attendance_percentage
            IN \E r \in DataRowIndices :
               \E g \in 1..Len(column_mapping.courses) :
                  LET group == column_mapping.courses[g]
                      at == GroupCells(df[r + 1], group)
                      reg == ColAt(df[r + 1],
                                   Get(column_mapping.registration_no, 1))
                  IN /\ ReadFrom(t, reg, group, at)
                     /\ IF BlankPercentage(at.percentage)
                        THEN /\ t.conducted_periods > 0 =>
                                  p[1] * t.conducted_periods
                                     = t.attended_periods * 100 * p[2]
                             /\ t.conducted_periods = 0 => p = <<0, 1>>
                        ELSE /\ Float(at.percentage).ok
                             /\ p[1] * 10 = Float(at.percentage).tenths * p[2]

\* a sheet with a row of 0 attended of 0 conducted and a row of 6 of 6, both
\* without percentage, has been parsed
C13_Witness ==
    /\ parse_pc = "returned"
    /\ processed_data # None
    /\ \E j, h \in 1..Len(processed_data.attendance) :
          /\ processed_data.attendance[j].conducted_periods = 0
          /\ processed_data.attendance[j].attendance_percentage = <<0, 1>>
          /\ processed_data.attendance[h].attended_periods = 6
          /\ processed_data.attendance[h].conducted_periods = 6
          /\ processed_data.attendance[h].attendance_percentage = <<100, 1>>

\* the header row the column map is built from, and its ATTENDED columns
HeaderRow == df[data_start_row]

AttendedColumns == AttendedCols(HeaderRow, 3)

\* the column map holds this group
Mapped(code, attended) ==
    \E g \in 1..Len(column_mapping.courses) :
        column_mapping.courses[g] =
            [code |-> code, attended |-> attended,
             conducted |-> attended + 1, percentage |-> attended + 2]

(***************************************************************************)
(* C18.  In the column map the i-th detected course (ascending header      *)
(* column) is paired with the i-th ATTENDED column at index >= 3: attended *)
(* is that column, conducted the next, percentage the one after; the map   *)
(* holds one group per paired course, so when there are more courses than  *)
(* ATTENDED columns exactly the trailing courses are absent.               *)
(***************************************************************************)
C18_PositionalPairing ==
    parse_pc = "mapped" =>
        /\ \A j \in 1..Len(courses_info) :
              j <= Len(AttendedColumns) =>
                  Mapped(courses_info[j].code, AttendedColumns[j])
        /\ Len(column_mapping.courses) =
              (IF Len(courses_info) <= Len(AttendedColumns)
               THEN Len(courses_info) ELSE Len(AttendedColumns))

(***************************************************************************)
(* C19.  When one course code appears in two header columns, both are kept *)
(* as entries of courses_info and, when both are paired with an ATTENDED   *)
(* column, the column map holds a group for each of them, so that a data   *)
(* row can yield one tuple from each group.                                *)
(***************************************************************************)
C19_DuplicateCodesKeptApart ==
    parse_pc = "mapped" =>
        \A j, h \in 1..Len(courses_info) :
            (/\ j < h
             /\ courses_info[j].code = courses_info[h].code
             /\ h <= Len(AttendedColumns)) =>
                /\ Mapped(courses_info[j].code, AttendedColumns[j])
                /\ Mapped(courses_info[h].code, AttendedColumns[h])

\* the cell is present, not blank, not '-' and numeric
Usable(cell) ==
    /\ cell # None
    /\ NotNa(cell)
    /\ Str(cell) # <<"-">>
    /\ Float(cell).ok

\* the registration cell of the data row at source index r
RegistrationCell(r) ==
    ColAt(df[r + 1], Get(column_mapping.registration_no, 1))

\* the data rows that pass the row-validity gate
AdmittedRows ==
    {r \in DataRowIndices :
        /\ \E j \in 1..Len(df[r + 1]) : NotNa(df[r + 1][j])
        /\ StrOrEmpty(RegistrationCell(r)) \notin {<<>>, <<"nan">>}}

\* the (row, group) pairs whose attended and conducted cells are usable
UsablePairs ==
    {rg \in AdmittedRows \X (1..Len(column_mapping.courses)) :
        LET at == GroupCells(df[rg[1] + 1], column_mapping.courses[rg[2]])
        IN Usable(at.attended) /\ Usable(at.conducted)}

(***************************************************************************)
(* C20.  When the parser returns, it returns a result; the result holds    *)
(* one student descriptor per data row with a usable registration number   *)
(* and none for the other rows, and exactly one tuple for every such row   *)
(* and mapped course whose attended and conducted cells are both present,  *)
(* not '-' and numeric, and no other tuple: a blank, '-' or non-numeric    *)
(* cell suppresses nothing else.                                           *)
(***************************************************************************)
C20_OneTuplePerUsableCourse ==
    parse_pc = "returned" /\ column_mapping # None =>
        /\ processed_data # None
        /\ Len(processed_data.students) = Cardinality(AdmittedRows)
        /\ Len(processed_data.attendance) = Cardinality(UsablePairs)
        /\ \A rg \in UsablePairs :
              \E j \in 1..Len(processed_data.attendance) :
                  ReadFrom(processed_data.attendance[j],
                           RegistrationCell(rg[1]),
                           column_mapping.courses[rg[2]],
                           GroupCells(df[rg[1] + 1],
                                      column_mapping.courses[rg[2]]))

(***************************************************************************)
(* C14.  The files of a request are processed one after another in request *)
(* order: the count k of finished files grows by one at a time; a file is  *)
(* finished only by a step that leaves the thread between files with       *)
(* nothing pending in the session (its commits or its rollback are done);  *)
(* the store changes only inside save_to_database; and once a file's       *)
(* save_to_database has started, every step is a step of that file until   *)
(* it returns.                                                             *)
(***************************************************************************)
C14_FilesStrictlySequential ==
    [][/\ k' \in {k, k + 1}
       /\ (k' = k + 1 => pc' = "loop" /\ session' = db')
       /\ (db' # db \/ session' # session => pc \in {"save", "merge"})
       /\ (pc \in {"save", "merge"} =>
              /\ k < nfiles
              /\ \/ pc' \in {"save", "merge"} /\ k' = k
                 \/ pc' = "loop" /\ k' = k + 1)]_vars

\* the second file is in its merge after the first was committed
C14_Witness ==
    /\ pc = "merge"
    /\ k = 1
    /\ nfiles = 2
    /\ processed_files = 1
    /\ db.records # EmptyBag
    /\ i > 0

(***************************************************************************)
(* C15.  While the students and courses of a file are inserted nothing is  *)
(* committed and no attendance tuple has been read or written; they are    *)
(* committed as one unit by the step that enters the merge; the merge, a   *)
(* failure in it included, never changes the students and courses of the   *)
(* session or of the committed store; a failure while inserting students   *)
(* or courses leaves the committed store as it was when the file started.  *)
(***************************************************************************)
C15_EntitiesCommittedBeforeMerge ==
    [][/\ (pc = "save" =>
              /\ i = 0 /\ attendance_tuple = None
              /\ session.records = db.records
              /\ session'.records = session.records
              /\ (pc' # "merge" => db' = db)
              /\ (pc' = "merge" => db' = session /\ session' = session)
              /\ (IsRaise => session' = db))
       /\ (pc = "merge" =>
              /\ db'.students = db.students /\ db'.courses = db.courses
              /\ session'.students = db.students
              /\ session'.courses = db.courses)]_vars

\* the merge of the first file has failed after its students and courses
\* were committed
C15_Witness ==
    /\ pc = "loop"
    /\ k = 1
    /\ result = "False"
    /\ db.students # {} /\ db.courses # {}
    /\ session = db

(***************************************************************************)
(* C16.  In the merge a commit happens after every BATCH_SIZE tuples of    *)
(* the input, counted over all tuples, those discarded for                 *)
(* conducted_periods < 5 included: after the iteration that consumes a     *)
(* multiple of BATCH_SIZE tuples nothing is pending in the session.        *)
(***************************************************************************)
C16_CommitEveryBatchOfInput ==
    [][(IsMergeStep /\ i' % BATCH_SIZE = 0) => db' = session']_vars

\* the largest conducted_periods >= 5 among the tuples of a pair, 0 if none
LargestConducted(tuples, registration_no, course_code) ==
    MaxOf({tuples[j].conducted_periods : j \in
              {h \in 1..Len(tuples) :
                  /\ tuples[h].registration_no = registration_no
                  /\ tuples[h].course_code = course_code
                  /\ tuples[h].conducted_periods >= MinConducted}})

(***************************************************************************)
(* C17.  After the second of two parsed files is ingested, for every       *)
(* registration number and course code the stored conducted_periods is the *)
(* larger of the value stored before (0 if none) and the largest           *)
(* conducted_periods >= 5 of the file's tuples for the pair; and the       *)
(* stored conducted_periods after ingesting both files is the same in both *)
(* orders.                                                                 *)
(***************************************************************************)
C17_ConductedIsMaximum ==
    /\ stores_after.both # None =>
          \A r \in RegNos, c \in CourseCodes :
              LET before == ConductedOf(stores_after.first, r, c)
                  largest == LargestConducted(file_pair[2].attendance, r, c)
              IN ConductedOf(stores_after.both, r, c) =
                    (IF before >= largest THEN before ELSE largest)
    /\ (stores_after.both # None /\ stores_after.reversed # None) =>
          \A r \in RegNos, c \in CourseCodes :
              ConductedOf(stores_after.both, r, c) =
                  ConductedOf(stores_after.reversed, r, c)

\* both files hold tuples of one pair, the first with the larger conducted
\* periods, and both orders have been ingested
C17_Witness ==
    /\ stores_after.both # None /\ stores_after.reversed # None
    /\ \E r \in RegNos, c \in CourseCodes :
          /\ LargestConducted(file_pair[1].attendance, r, c) = MaxConducted
          /\ LargestConducted(file_pair[2].attendance, r, c) = MinConducted
          /\ Len(file_pair[2].attendance) >= 2
          /\ ConductedOf(stores_after.both, r, c) = MaxConducted


\* C12: for a threshold t below 100 the attendance query returns exactly
\* the records matching the other filters whose percentage is strictly
\* below t (a record at exactly t is left out), each once, in ascending order
\* of percentage, then registration number, then course code.
C12_ThresholdStrictAndOrdered ==
    [][(query_result' # query_result /\ query_args.threshold < 100) =>
        LET rows == query_result'.rows
            others == get_filtered_attendance_records(
                          session, [query_args EXCEPT !.threshold = 100])
        IN /\ {rows[j] : j \in 1..Len(rows)} =
                 {others[j] : j \in {h \in 1..Len(others) :
                     others[h].record.attendance_percentage
                         < query_args.threshold}}
           /\ \A j, h \in 1..Len(rows) : j < h =>
                 LET x == rows[j]
                     y == rows[h]
                     px == x.record.attendance_percentage
                     py == y.record.attendance_percentage
                     rx == x.student.registration_no
                     ry == y.student.registration_no
                 IN /\ px <= py
                    /\ px = py => (rx = ry \/ StrLess(rx, ry))
                    /\ (px = py /\ rx = ry) =>
                          StrLess(x.course.course_code, y.course.course_code)
       ]_vars

\* a query with threshold 75 has run on a store holding a record at exactly
\* 75, and returned two records of equal percentage of two students
C12_Witness ==
    /\ query_result # None
    /\ query_args.threshold = 75
    /\ \E x \in Joined(session) : x.record.attendance_percentage = 75
    /\ \E j, h \in 1..Len(query_result.rows) :
          /\ j < h
          /\ query_result.rows[j].record.attendance_percentage
                = query_result.rows[h].record.attendance_percentage
          /\ query_result.rows[j].student # query_result.rows[h].student

(***************************************************************************)
(* C21.  find_data_start_row returns the index following the first row, in *)
(* row order, whose text contains 'ADMISSION NO', 'REGISTRATION NO' or     *)
(* 'STUDENT NAME' in any letter case, and 7 when no row contains one; the  *)
(* rows after the first marker row, marker rows included, do not change    *)
(* the result.  Row r of the grid has index r - 1 in the source.           *)
(***************************************************************************)
HasMarker(cells) == \E keyword \in Markers : Contains(RowStr(cells), keyword)

C21_StartAfterFirstMarker ==
    parse_pc = "start_row" =>
        LET marked == {r \in 1..Len(df) : HasMarker(df[r])}
        IN IF marked = {} THEN data_start_row = 7
           ELSE \E r \in marked :
                   /\ \A q \in 1..(r - 1) : q \notin marked
                   /\ data_start_row = (r - 1) + 1
                   /\ find_data_start_row(SubSeq(df, 1, r)) = data_start_row

\* the function has run on a grid with two marker rows, the first of them
\* below the top row and written in lower case
C21_Witness ==
    /\ parse_pc = "start_row"
    /\ Len(df) >= 3
    /\ ~HasMarker(df[1])
    /\ df[2] = Pad(<<NaN, Text(<<"student", "name">>)>>)
    /\ HasMarker(df[3])
    /\ data_start_row = 2

(***************************************************************************)
(* C22.  When two ingestion runs merge tuples of the same (student,        *)
(* course) pair concurrently, every interleaving of their reads, writes    *)
(* and commits leaves the store as one of the two serial orders of the     *)
(* runs would (one record for the pair, holding the tuple with the larger  *)
(* conducted_periods), and no step lowers the stored conducted_periods.    *)
(***************************************************************************)
Serially(first, second) ==
    MergeOne(MergeOne(base, runs[first].attendance_data).store,
             runs[second].attendance_data).store

StoredConducted(s) ==
    {r.conducted_periods : r \in BagToSet(s.records)}

C22_ConcurrentRunsSerialize ==
    /\ []((\A p \in Runs : runs[p].at = "done") =>
             db \in {Serially(1, 2), Serially(2, 1)})
    /\ [][\A m \in StoredConducted(db) :
             \A n \in StoredConducted(db') : n >= m]_vars

(***************************************************************************)
(* C23.  Every persisted AttendanceRecord has attended_periods >= 0,       *)
(* conducted_periods >= 0 and an attendance_percentage from 0 to 100,      *)
(* whatever parsable sheet was ingested: sheets with negative counts or    *)
(* with an explicit percentage outside that range included.  A percentage  *)
(* is the ratio <<n, d>>.                                                  *)
(***************************************************************************)
C23_RecordsWithinRange ==
    \A r \in BagToSet(db.records) :
        /\ r.attended_periods >= 0
        /\ r.conducted_periods >= 0
        /\ r.attendance_percentage[1] >= 0
        /\ r.attendance_percentage[1] <= 100 * r.attendance_percentage[2]

(***************************************************************************)
(* C24.  When save_to_database succeeds, every attendance tuple of the     *)
(* input was counted exactly once: each iteration of the attendance loop   *)
(* adds one to exactly one of total_added, total_updated and               *)
(* total_skipped, to total_added exactly when it creates an                *)
(* AttendanceRecord and to total_updated exactly when it overwrites one,   *)
(* and at the return of True the three add up to the number of tuples of   *)
(* the input.                                                              *)
(***************************************************************************)
\* this step is the return of True
IsSuccess == pc = "merge" /\ pc' = "loop" /\ result' = "True"

RecordCount(s) == BagCardinality(s.records)

C24_EveryTupleCountedOnce ==
    [][/\ IsMergeStep =>
            /\ (total_added' + total_updated' + total_skipped')
                  = (total_added + total_updated + total_skipped) + 1
            /\ total_added' \in {total_added, total_added + 1}
            /\ total_updated' \in {total_updated, total_updated + 1}
            /\ total_skipped' \in {total_skipped, total_skipped + 1}
            /\ total_added' = total_added + 1
                  <=> RecordCount(session') = RecordCount(session) + 1
            /\ total_updated' = total_updated + 1
                  <=> /\ RecordCount(session') = RecordCount(session)
                      /\ session'.records # session.records
       /\ IsSuccess =>
            /\ total_added + total_updated + total_skipped = i
            /\ sheet # None => i = Len(sheet.attendance)
      ]_vars

\* a file has been saved in which one tuple was added, one overwrote a
\* record and one was skipped
C24_Witness ==
    /\ pc = "loop"
    /\ result = "True"
    /\ i >= 3
    /\ total_added >= 1
    /\ total_updated >= 1
    /\ total_skipped >= 1

(***************************************************************************)
(* C25.  The persisted course_name of every Course is the name parsed from *)
(* the header cell of that course, the leftmost one when the code stands   *)
(* in several columns; the course_name field of the attendance tuples,     *)
(* which is the first detected course's name, is written nowhere, so the   *)
(* courses of a multi-course file keep their own names.                    *)
(***************************************************************************)
\* the columns of the course header (row index 4) that name the code
HeaderColumnsOf(course_code) ==
    {col \in 0..(Width - 1) :
        /\ Len(df) > 4
        /\ CourseMatch(df[5][col + 1]) # None
        /\ CourseMatch(df[5][col + 1]).code = course_code}

C25_CourseKeepsOwnName ==
    \A course \in db.courses :
        /\ HeaderColumnsOf(course.course_code) # {}
        /\ \E col \in HeaderColumnsOf(course.course_code) :
              /\ \A other \in HeaderColumnsOf(course.course_code) : col <= other
              /\ course.course_name = CourseMatch(df[5][col + 1]).name

\* a file with two courses of different names is stored, with a record of
\* the second course, whose tuple carried the first course's name
C25_Witness ==
    \E course \in db.courses :
        /\ extract_course_info_from_header(df) # <<>>
        /\ course.course_name # extract_course_info_from_header(df)[1].name
        /\ \E r \in BagToSet(db.records) : r.course_id = course.id

(***************************************************************************)
(* C26.  An upload request with no files or with more than 20 files is     *)
(* answered with a failure straight away: no file of it is parsed or       *)
(* saved and the store is left as it was.  A request with 1 to 20 files    *)
(* reports success exactly when at least one of its files was processed    *)
(* successfully: processed_files counts the files whose save returned      *)
(* True, and the response reports success exactly when it is above 0.      *)
(***************************************************************************)
C26_RejectedOrSuccessIffProcessed ==
    [][/\ (response' # response /\ (nfiles' = 0 \/ nfiles' > 20)) =>
            /\ pc = "idle"
            /\ ~response'.success
            /\ db' = db /\ session' = session
            /\ k' = k /\ processed_files' = processed_files
       /\ (response' # response /\ nfiles' \in 1..20) =>
            (response'.success <=> processed_files > 0)
       /\ k' = k + 1 =>
            processed_files' = processed_files + IF IsSuccess THEN 1 ELSE 0
       /\ (k' = k /\ pc # "idle") => processed_files' = processed_files
       /\ (pc = "idle" /\ pc' = "loop") => processed_files' = 0
      ]_vars

\* a request of two files has been answered with success after one of its
\* files failed and the other was processed
C26_Witness ==
    /\ pc = "done"
    /\ response # None
    /\ response.success
    /\ nfiles = 2
    /\ processed_files = 1
    /\ db # EmptyStore

====
